---------------------------- MODULE Spec2Model ----------------------------
(***************************************************************************)
(* A model of the rules engine of cubic-cleanup: the hex board and its     *)
(* scoring patterns (boardDefinition.ts), the piece catalog (pieces.ts),   *)
(* the placement / clear / scoring transition (gameLogic.ts) and the       *)
(* placement handler of the UI (App.tsx).                                  *)
(*                                                                         *)
(* Cell ids are the strings the code builds ("q,r"); a board is a function *)
(* from cell ids to "empty" / "filled"; numbers the code computes in       *)
(* double precision are computed here in double precision (53-bit          *)
(* mantissas held in limbs, see the section on doubles).                   *)
(***************************************************************************)
EXTENDS Integers, Sequences, FiniteSets, TLC

VARIABLES
    game,       \* the GameState the App holds (useState<GameState>, App.tsx:612)
    undoStack,  \* the snapshots undo can go back to (useState, App.tsx:694)
    call,       \* the applyPlacement call of the latest placement: its arguments, its
                \* result, and the caller's state object as it is after the call
    prev,       \* what the placement of the game played before this one gave
    saved,      \* savedEndlessGame and savedDailyGame (useState, App.tsx:657-660)
    budget,     \* the number of requests the session still takes
    last,       \* the handler of the latest request
    probe       \* a function of gameLogic.ts called on its own: its arguments, where
                \* it stands, and what it returned

vars == <<game, undoStack, call, prev, saved, budget, last, probe>>

\* null / undefined where the value is otherwise a string (a cell id)
NULL == "null"

\* null / undefined where the value is otherwise an object
NONE == [none |-> TRUE]

(***************************************************************************)
(* Generic helpers on sequences.                                           *)
(***************************************************************************)
Range(s) == {s[i] : i \in 1..Len(s)}

Includes(s, x) == \E i \in 1..Len(s) : s[i] = x

\* The concatenation of the sequences ss[lo], ..., ss[hi].
RECURSIVE ConcatRange(_, _, _)
ConcatRange(ss, lo, hi) ==
    IF lo > hi THEN <<>>
    ELSE IF lo = hi THEN ss[lo]
    ELSE LET mid == (lo + hi) \div 2
         IN  ConcatRange(ss, lo, mid) \o ConcatRange(ss, mid + 1, hi)

Concat(ss) == ConcatRange(ss, 1, Len(ss))

\* Keep the first occurrence of every element (Map / Set insertion order).
Dedup(s) ==
    Concat([i \in 1..Len(s) |->
              IF \E j \in 1..(i - 1) : s[j] = s[i] THEN <<>> ELSE <<s[i]>>])

\* s.filter((x) => keep.has(x))
FilterIn(s, keep) ==
    Concat([i \in 1..Len(s) |-> IF s[i] \in keep THEN <<s[i]>> ELSE <<>>])

RECURSIVE SumSeq(_)
SumSeq(s) == IF s = <<>> THEN 0 ELSE Head(s) + SumSeq(Tail(s))

(***************************************************************************)
(* Doubles.  A JavaScript number is an IEEE-754 double; TLC's integers are *)
(* 32 bits wide, so a natural number of any size is held as a sequence of  *)
(* limbs (least significant first, LimbBits bits each), and a non-negative *)
(* finite double as [m, e], the value m * 2^e with 2^52 <= m < 2^53, or    *)
(* m = 0.  Every operation rounds its exact result to the nearest double,  *)
(* ties to even, as the hardware does.                                     *)
(***************************************************************************)
LimbBits == 14
LimbBase == 2 ^ LimbBits
MantissaBits == 53

BigFromInt(n) == << n % LimbBase, (n \div LimbBase) % LimbBase, n \div (LimbBase * LimbBase) >>

BigLimb(x, i) == IF i >= 1 /\ i <= Len(x) THEN x[i] ELSE 0

\* the limbs of sum_i cols[i] * LimbBase^(i-1), for columns below 2^31 - 2^17
RECURSIVE BigCarry(_, _, _, _)
BigCarry(cols, i, carry, acc) ==
    IF i > Len(cols)
    THEN IF carry = 0 THEN acc ELSE BigCarry(cols \o <<0>>, i, carry, acc)
    ELSE BigCarry(cols, i + 1, (cols[i] + carry) \div LimbBase,
                  Append(acc, (cols[i] + carry) % LimbBase))

BigAdd(x, y) ==
    BigCarry([i \in 1..(IF Len(x) > Len(y) THEN Len(x) ELSE Len(y)) |->
                BigLimb(x, i) + BigLimb(y, i)], 1, 0, <<>>)

\* schoolbook product; each factor has at most 5 limbs
BigMul(x, y) ==
    LET col(k) == SumSeq([i \in 1..Len(x) |-> x[i] * BigLimb(y, k - i + 1)])
    IN  BigCarry([k \in 1..(Len(x) + Len(y) - 1) |-> col(k)], 1, 0, <<>>)

\* quotient and remainder of x by a small k (k < 2^17), most significant limb first
RECURSIVE BigDivSmallFrom(_, _, _, _, _)
BigDivSmallFrom(x, k, i, rem, acc) ==
    IF i = 0 THEN [q |-> acc, r |-> rem]
    ELSE BigDivSmallFrom(x, k, i - 1, (rem * LimbBase + x[i]) % k,
                         <<(rem * LimbBase + x[i]) \div k>> \o acc)

BigDivSmall(x, k) == BigDivSmallFrom(x, k, Len(x), 0, <<>>)

BigIsZero(x) == \A i \in 1..Len(x) : x[i] = 0

IntBitLen(n) == IF n = 0 THEN 0 ELSE (CHOOSE b \in 1..31 : 2 ^ (b - 1) <= n /\ (b = 31 \/ n < 2 ^ b))

BigBitLen(x) ==
    LET From(h) == (h - 1) * LimbBits + IntBitLen(x[h])
    IN  IF BigIsZero(x) THEN 0
        ELSE From(CHOOSE i \in 1..Len(x) : x[i] # 0 /\ \A j \in (i + 1)..Len(x) : x[j] = 0)

BigBit(x, i) == (BigLimb(x, (i \div LimbBits) + 1) \div (2 ^ (i % LimbBits))) % 2

\* x * 2^n
RECURSIVE BigShl(_, _)
BigShl(x, n) ==
    IF n = 0 THEN x
    ELSE IF n >= LimbBits THEN <<0>> \o BigShl(x, n - LimbBits)
    ELSE BigCarry([i \in 1..Len(x) |-> x[i] * (2 ^ n)], 1, 0, <<>>)

\* floor(x / 2^n)
BigShr(x, n) ==
    LET a == n \div LimbBits
        b == n % LimbBits
    IN  IF Len(x) <= a THEN <<0>>
        ELSE [i \in 1..(Len(x) - a) |->
                (x[i + a] \div (2 ^ b)) + (BigLimb(x, i + a + 1) % (2 ^ b)) * (2 ^ (LimbBits - b))]

\* x mod 2^n = 0
BigLowZero(x, n) == \A i \in 0..(n - 1) : BigBit(x, i) = 0

BigToInt(x) == SumSeq([i \in 1..Len(x) |-> IF x[i] = 0 THEN 0 ELSE x[i] * (LimbBase ^ (i - 1))])

\* a mantissa is kept in exactly the limbs 53 bits need
MantissaLimbs == 4
Mantissa(big) == [i \in 1..MantissaLimbs |-> BigLimb(big, i)]

DblZero == [m |-> Mantissa(<<0>>), e |-> 0]

\* The double nearest to big * 2^e (ties to even).
RoundToDouble(big, e) ==
    LET \* a mantissa r of 53 or 54 bits with its exponent, brought back to 53 bits
        Renormalise(r, x) ==
            IF BigBitLen(r) > MantissaBits
            THEN [m |-> Mantissa(BigShr(r, 1)), e |-> x + 1]
            ELSE [m |-> Mantissa(r), e |-> x]
        \* q = floor(big / 2^n) is rounded up when the guard bit is set, and a
        \* lower bit is set or q is odd
        RoundQuotient(q, n) ==
            Renormalise(IF /\ BigBit(big, n - 1) = 1
                           /\ (~BigLowZero(big, n - 1) \/ BigBit(q, 0) = 1)
                        THEN BigAdd(q, <<1>>) ELSE q,
                        e + n)
        \* big has len bits
        RoundBits(len) ==
            IF len = 0 THEN DblZero
            ELSE IF len <= MantissaBits
            THEN [m |-> Mantissa(BigShl(big, MantissaBits - len)),
                  e |-> e - (MantissaBits - len)]
            ELSE RoundQuotient(BigShr(big, len - MantissaBits), len - MantissaBits)
    IN  RoundBits(BigBitLen(big))

IntToDbl(n) == RoundToDouble(BigFromInt(n), 0)

DblMul(x, y) == RoundToDouble(BigMul(x.m, y.m), x.e + y.e)

DblAdd(x, y) ==
    LET \* both mantissas aligned at the exponent e, the smaller of the two
        At(e) == RoundToDouble(BigAdd(BigShl(x.m, x.e - e), BigShl(y.m, y.e - e)), e)
    IN  IF BigIsZero(x.m) THEN y
        ELSE IF BigIsZero(y.m) THEN x
        ELSE At(IF x.e < y.e THEN x.e ELSE y.e)

\* The double a decimal literal num/den denotes: the quotient to 70 bits with a
\* sticky bit for the remainder, rounded.
DblOfFraction(num, den) ==
    LET WithSticky(d) == BigAdd(BigShl(d.q, 1), <<IF d.r = 0 THEN 0 ELSE 1>>)
    IN  RoundToDouble(WithSticky(BigDivSmall(BigShl(BigFromInt(num), 70), den)), -71)

\* Math.round for a non-negative double below 2^31: the nearest integer, a tie
\* going up, i.e. floor(x + 1/2) computed exactly.
MathRound(x) ==
    IF BigIsZero(x.m) THEN 0
    ELSE IF x.e >= 0 THEN BigToInt(BigShl(x.m, x.e))
    ELSE BigToInt(BigShr(BigAdd(x.m, BigShl(<<1>>, (-x.e) - 1)), -x.e))

\* x = n for an integer n
DblIsInt(x, n) == x = IntToDbl(n)

(***************************************************************************)
(* hexTypes.ts                                                             *)
(***************************************************************************)
Ax(q, r) == [q |-> q, r |-> r]

axialToId(coord) == ToString(coord.q) \o "," \o ToString(coord.r)

directions ==
    << Ax(1, 0), Ax(1, -1), Ax(0, -1), Ax(-1, 0), Ax(-1, 1), Ax(0, 1) >>

addAxial(a, b) == Ax(a.q + b.q, a.r + b.r)

\* One sixth-turn is (q, r) -> (-r, q + r), the rotation pieces.ts uses.
RECURSIVE rotateAxial(_, _)
rotateAxial(c, times) ==
    IF times = 0 THEN c ELSE rotateAxial(Ax(-c.r, c.q + c.r), times - 1)

(***************************************************************************)
(* boardDefinition.ts                                                      *)
(***************************************************************************)
\* Variant of flowerCenters with the last satellite one step further round.
flowerCentersShifted ==
    << Ax(0, 0), Ax(-3, 1), Ax(-2, 3), Ax(-1, -2), Ax(1, 2), Ax(2, -3), Ax(3, 0) >>

flowerCenters ==
    << Ax(0, 0), Ax(-3, 1), Ax(-2, 3), Ax(-1, -2), Ax(1, 2), Ax(2, -3), Ax(3, -1) >>

\* Variant of FlowerCoords: the six neighbours, then the center.
FlowerCoordsPetalsFirst(center) ==
    [i \in 1..6 |-> addAxial(center, directions[i])] \o <<center>>

\* center, then its six neighbours in the order of `directions`
FlowerCoords(center) ==
    <<center>> \o [i \in 1..6 |-> addAxial(center, directions[i])]

\* cellMap: every coordinate once, in insertion order
cellCoords ==
    Dedup(Concat([i \in 1..Len(flowerCenters) |-> FlowerCoords(flowerCenters[i])]))

\* Array.from(cellMap.entries()).map(([id, coord]) => ({ id, coord }))
cells ==
    LET Of(coords) ==
            [i \in 1..Len(coords) |-> [id |-> axialToId(coords[i]), coord |-> coords[i]]]
    IN  Of(cellCoords)

cellSet == {cell.id : cell \in Range(cells)}

\* id.split(',') and Number(): the coordinate a cell id was built from
CoordOf(id) == (CHOOSE c \in Range(cells) : c.id = id).coord

getNeighbor(id, dir) ==
    LET \* cellSet.has(nextId) ? nextId : null
        InCellSet(nextId) == IF nextId \in cellSet THEN nextId ELSE NULL
    IN  InCellSet(axialToId(addAxial(CoordOf(id), dir)))

flowerPatternsBuilt ==
    LET \* the body of flowerCenters.forEach for the cell ids found around a center
        Pattern(index, ids) ==
            IF Len(ids) = 7
            THEN << [id |-> "flower-" \o ToString(index), type |-> "flower", cellIds |-> ids] >>
            ELSE <<>>
        \* [centerId, ...petalIds].filter((id) => cellMap.has(id))
        CellIds(center) ==
            FilterIn([k \in 1..7 |-> axialToId(FlowerCoords(center)[k])], cellSet)
    IN  Concat([i \in 1..Len(flowerCenters) |-> Pattern(i - 1, CellIds(flowerCenters[i]))])

primaryDirs == SubSeq(directions, 1, 3)

\* The while loop of a line: it goes on from the last id as long as there is a
\* neighbour in the direction.
RECURSIVE WalkLine(_, _)
WalkLine(lineIds, dir) ==
    LET On(neighborId) ==
            IF neighborId = NULL THEN lineIds ELSE WalkLine(Append(lineIds, neighborId), dir)
    IN  On(getNeighbor(lineIds[Len(lineIds)], dir))

\* Variant of LineFrom in which a line starts at every cell.
LineFromAnywhere(startId, dir) ==
    LET Keep(lineIds) == IF Len(lineIds) < 2 THEN <<>> ELSE <<lineIds>>
    IN  Keep(WalkLine(<<startId>>, dir))

\* The body of the loops over cellSet and primaryDirs: the line that starts at
\* startId in direction dir, if one starts there.
LineFrom(startId, dir) ==
    LET \* if (lineIds.length >= 2)
        Keep(lineIds) == IF Len(lineIds) < 2 THEN <<>> ELSE <<lineIds>>
    IN  IF getNeighbor(startId, Ax(-dir.q, -dir.r)) # NULL THEN <<>>
        ELSE Keep(WalkLine(<<startId>>, dir))

\* seenLines: a line is pushed once, the first time its key is met.  Step k of
\* the two loops is (start index, direction index) = (k \div 3, k % 3).
linesBuilt ==
    LET Of(starts) ==
            Dedup(Concat([k \in 1..(Len(starts) * 3) |->
                LineFrom(starts[((k - 1) \div 3) + 1].id, primaryDirs[((k - 1) % 3) + 1])]))
    IN  Of(cells)

buildBoard ==
    LET \* a line's id is "line-" and patterns.length at the time it is pushed
        LinePatterns(nFlowers, lines) ==
            [i \in 1..Len(lines) |->
                [ id |-> "line-" \o ToString(nFlowers + i - 1),
                  type |-> "line",
                  cellIds |-> lines[i] ]]
        \* const isScoring = lineIds.length === 7
        ScoringLineIds(linePatterns) ==
            Concat([i \in 1..Len(linePatterns) |->
                      IF Len(linePatterns[i].cellIds) = 7
                      THEN <<linePatterns[i].id>> ELSE <<>>])
        flowerIds(flowers) == [i \in 1..Len(flowers) |-> flowers[i].id]
        Board(allCells, flowers, linePatterns) ==
            [ cells |-> allCells,
              patterns |-> flowers \o linePatterns,
              scoringLineIds |-> ScoringLineIds(linePatterns),
              flowerIds |-> flowerIds(flowers) ]
        Built(allCells, flowers, lines) ==
            Board(allCells, flowers, LinePatterns(Len(flowers), lines))
    IN  Built(cells, flowerPatternsBuilt, linesBuilt)

BOARD_DEFINITION == buildBoard

(***************************************************************************)
(* pieces.ts: the catalog of polyhex shapes                                *)
(***************************************************************************)
\* rotate(c, times) of transformVariants
RECURSIVE rotate(_, _)
rotate(c, times) ==
    IF times = 0 THEN c ELSE rotate(Ax(-c.r, c.q + c.r), times - 1)

reflect(c) == Ax(-c.q, c.r + c.q)

SetMin(S) == CHOOSE x \in S : \A y \in S : x <= y

\* the comparator (a.q - b.q) || (a.r - b.r)
AxialBefore(a, b) == a.q < b.q \/ (a.q = b.q /\ a.r < b.r)

\* Array.prototype.sort is stable: equal elements keep their order
SortAxial(shape) ==
    LET Rank(i) ==
            Cardinality({j \in 1..Len(shape) : \/ AxialBefore(shape[j], shape[i])
                                               \/ (/\ ~AxialBefore(shape[i], shape[j])
                                                   /\ j < i)})
    IN  [k \in 1..Len(shape) |-> shape[CHOOSE i \in 1..Len(shape) : Rank(i) = k - 1]]

normalize(shape) ==
    LET Shifted(minQ, minR) ==
            [i \in 1..Len(shape) |-> Ax(shape[i].q - minQ, shape[i].r - minR)]
    IN  SortAxial(Shifted(SetMin({shape[i].q : i \in 1..Len(shape)}),
                          SetMin({shape[i].r : i \in 1..Len(shape)})))

\* Variant of transformVariants without the reflections: every rotation twice.
transformVariantsTurned(shapeCells) ==
    LET Rotated(rot) == [i \in 1..Len(shapeCells) |-> rotate(shapeCells[i], rot)]
    IN  [k \in 1..12 |-> normalize(Rotated((k - 1) \div 2))]

\* for rot = 0..5: the rotated shape, then the rotated and reflected shape
transformVariants(shapeCells) ==
    LET Rotated(rot) == [i \in 1..Len(shapeCells) |-> rotate(shapeCells[i], rot)]
        Reflected(rotated) == [i \in 1..Len(rotated) |-> reflect(rotated[i])]
    IN  [k \in 1..12 |->
            normalize(IF k % 2 = 1 THEN Rotated((k - 1) \div 2)
                      ELSE Reflected(Rotated((k - 1) \div 2)))]

\* v.map((c) => `${c.q},${c.r}`).join(';')
RECURSIVE VariantString(_)
VariantString(v) ==
    IF Len(v) = 1 THEN axialToId(v[1])
    ELSE axialToId(v[1]) \o ";" \o VariantString(Tail(v))

\* The order of variantStrings.sort() (by UTF-16 code units).  The strings
\* compared are variants of one shape: they have the same number of cells, and
\* every normalized coordinate of a shape of at most 4 cells is one digit, 0..3,
\* so they have equal length with the separators at the same places, and the
\* string order is the order of the coordinates read left to right.
Digits(v) == Concat([i \in 1..Len(v) |-> <<v[i].q, v[i].r>>])

LexLessEq(a, b) ==
    \/ a = b
    \/ \E i \in 1..Len(a) : a[i] < b[i] /\ \A j \in 1..(i - 1) : a[j] = b[j]

canonicalKey(shapeCells) ==
    LET \* variantStrings.sort()[0]
        First(variants) ==
            variants[CHOOSE k \in 1..12 :
                        \A j \in 1..12 : LexLessEq(Digits(variants[k]), Digits(variants[j]))]
    IN  VariantString(First(transformVariants(shapeCells)))

\* Variant of expand that puts the new cell in front of the shape.
expandInFront(current) ==
    LET Grow(neighbor) ==
            IF neighbor \in Range(current) THEN <<>> ELSE << <<neighbor>> \o current >>
    IN  Concat([k \in 1..(Len(current) * 6) |->
            Grow(addAxial(current[((k - 1) \div 6) + 1], directions[((k - 1) % 6) + 1]))])

expand(current) ==
    LET \* one neighbour of one cell of `current`: the shape grown by it, if it is new
        Grow(neighbor) ==
            IF neighbor \in Range(current) THEN <<>> ELSE << Append(current, neighbor) >>
    IN  Concat([k \in 1..(Len(current) * 6) |->
            Grow(addAxial(current[((k - 1) \div 6) + 1], directions[((k - 1) % 6) + 1]))])

\* One pass of the loop over `size`: every shape grown from the frontier, in loop
\* order, kept when its key is not yet in `shapes` (the Map) at that time.
GrowStep(known, frontier) ==
    LET KeysOf(shapes) == [i \in 1..Len(shapes) |-> canonicalKey(shapes[i])]
        \* if (!shapes.has(key)): a grown shape is kept when its key is neither a
        \* known one nor the key of a shape grown before it in this pass
        KeepNew(grown, keys, knownKeys) ==
            Concat([i \in 1..Len(grown) |->
                      IF keys[i] \in knownKeys \/ \E j \in 1..(i - 1) : keys[j] = keys[i]
                      THEN <<>> ELSE << grown[i] >>])
        KeepUnknown(grown) == KeepNew(grown, KeysOf(grown), Range(KeysOf(known)))
    IN  KeepUnknown(Concat([i \in 1..Len(frontier) |-> expand(frontier[i])]))

MinShapeSize == 1
MaxShapeSize == 4

RECURSIVE GrowAll(_, _, _)
GrowAll(size, known, frontier) ==
    LET On(nextFrontier) == GrowAll(size + 1, known \o nextFrontier, nextFrontier)
    IN  IF size > MaxShapeSize THEN known
        ELSE On(GrowStep(known, frontier))

generateShapes ==
    LET \* if (cells.length >= 1 && cells.length <= 4): the shape with its id and size
        PieceShapesOf(shapes) ==
            Concat([i \in 1..Len(shapes) |->
                IF Len(shapes[i]) >= MinShapeSize /\ Len(shapes[i]) <= MaxShapeSize
                THEN << [ id |-> "shape-" \o ToString(Len(shapes[i])) \o "-" \o ToString(i - 1),
                          cells |-> shapes[i],
                          size |-> Len(shapes[i]) ] >>
                ELSE <<>>])
        \* pieceShapes.sort((a, b) => a.size - b.size), a stable sort
        SortBySize(pieceShapes) ==
            Concat([sz \in MinShapeSize..MaxShapeSize |->
                      Concat([i \in 1..Len(pieceShapes) |->
                                IF pieceShapes[i].size = sz THEN <<pieceShapes[i]>> ELSE <<>>])])
    IN  SortBySize(PieceShapesOf(GrowAll(2, << <<Ax(0, 0)>> >>, << <<Ax(0, 0)>> >>)))

ALL_PIECE_SHAPES == generateShapes

(***************************************************************************)
(* gameLogic.ts                                                            *)
(***************************************************************************)
EMPTY == "empty"
FILLED == "filled"

patterns == BOARD_DEFINITION.patterns

\* Variant of scoringPatternIds in which the short lines score too.
AllPatternIds == {pattern.id : pattern \in Range(patterns)}

\* new Set([...BOARD_DEFINITION.scoringLineIds, ...BOARD_DEFINITION.flowerIds])
scoringPatternIds ==
    LET Of(definition) == Range(definition.scoringLineIds) \cup Range(definition.flowerIds)
    IN  Of(BOARD_DEFINITION)

FLOWER_PATTERNS ==
    LET IsFlower(pattern) == pattern.type = "flower"
    IN  SelectSeq(patterns, IsFlower)

\* pattern.cellIds.every((id) => board[id] === 'filled')
AllFilled(board, pattern) ==
    \A i \in 1..Len(pattern.cellIds) :
        pattern.cellIds[i] \in DOMAIN board /\ board[pattern.cellIds[i]] = FILLED

findClears(board) ==
    LET Cleared(pattern) == pattern.id \in scoringPatternIds /\ AllFilled(board, pattern)
        \* Array.from(clearedCellsSet): every cell of a cleared pattern once, in
        \* insertion order
        Clears(clearedPatterns) ==
            [ clearedPatterns |-> clearedPatterns,
              clearedCellIds |->
                  Dedup(Concat([i \in 1..Len(clearedPatterns) |->
                                  clearedPatterns[i].cellIds])) ]
    IN  Clears(SelectSeq(patterns, Cleared))

createEmptyBoard == [id \in cellSet |-> EMPTY]

\* Whether a cell lies inside one of the forbidden flowers (the inner loop over
\* FLOWER_PATTERNS); forbiddenFlowers is a set of pattern ids, the empty set
\* standing for `undefined` too (the code treats the two alike).
InForbiddenFlower(id, forbiddenFlowers) ==
    /\ forbiddenFlowers # {}
    /\ \E flower \in Range(FLOWER_PATTERNS) :
          flower.id \in forbiddenFlowers /\ Includes(flower.cellIds, id)

\* Variant of SpawnLoop that keeps a tentative fill when it goes on to the next cell.
RECURSIVE SpawnLoopNoRevert(_, _, _, _)
SpawnLoopNoRevert(board, shuffled, i, forbiddenFlowers) ==
    LET Try(tried, id) ==
            IF Len(findClears(tried).clearedPatterns) = 0
            THEN [id |-> id, board |-> tried]
            ELSE SpawnLoopNoRevert(tried, shuffled, i + 1, forbiddenFlowers)
        At(id) ==
            IF InForbiddenFlower(id, forbiddenFlowers)
            THEN SpawnLoopNoRevert(board, shuffled, i + 1, forbiddenFlowers)
            ELSE IF board[id] = FILLED
            THEN [id |-> id, board |-> board]
            ELSE Try([board EXCEPT ![id] = FILLED], id)
    IN  IF i > Len(shuffled) THEN [id |-> NULL, board |-> board]
        ELSE At(shuffled[i].id)

\* The first loop of spawnGoldenCell from position i of the shuffled cells.
\* It works on the board object it was given: a tentative fill is a write.
RECURSIVE SpawnLoop(_, _, _, _)
SpawnLoop(board, shuffled, i, forbiddenFlowers) ==
    LET \* board[id] = 'filled' was written: the cell is taken unless a pattern clears
        Try(tried, id) ==
            IF Len(findClears(tried).clearedPatterns) = 0
            THEN [id |-> id, board |-> tried]
            ELSE SpawnLoop([tried EXCEPT ![id] = EMPTY], shuffled, i + 1, forbiddenFlowers)
        At(id) ==
            IF InForbiddenFlower(id, forbiddenFlowers)
            THEN SpawnLoop(board, shuffled, i + 1, forbiddenFlowers)
            ELSE IF board[id] = FILLED
            THEN [id |-> id, board |-> board]
            ELSE Try([board EXCEPT ![id] = FILLED], id)
    IN  IF i > Len(shuffled) THEN [id |-> NULL, board |-> board]
        ELSE At(shuffled[i].id)

\* The fallback loop: the first filled cell outside the forbidden flowers.
SpawnFallback(board, shuffled, forbiddenFlowers) ==
    LET ok(cell) == /\ ~InForbiddenFlower(cell.id, forbiddenFlowers)
                    /\ board[cell.id] = FILLED
        FirstId(candidates) == IF candidates = <<>> THEN NULL ELSE candidates[1].id
    IN  FirstId(SelectSeq(shuffled, ok))

\* Variant of spawnGoldenCell that finds no cell.
spawnGoldenCellNone(board, forbiddenFlowers, shuffled) == [id |-> NULL, board |-> board]

\* spawnGoldenCell(board, forbiddenFlowers) for one outcome `shuffled` of the
\* Fisher-Yates shuffle.  Returns the chosen id and the board object as the
\* call leaves it.
spawnGoldenCell(board, forbiddenFlowers, shuffled) ==
    LET \* the end of the function, `first` being what the first loop gave
        After(first) ==
            IF first.id # NULL THEN first
            ELSE [id |-> SpawnFallback(first.board, shuffled, forbiddenFlowers),
                  board |-> first.board]
    IN  After(SpawnLoop(board, shuffled, 1, forbiddenFlowers))

\* A thrown exception (reading a property of undefined).
THROWN == [thrown |-> TRUE]

FirstOrNone(found) == IF found = <<>> THEN NONE ELSE found[1]

\* BOARD_DEFINITION.cells.find((c) => c.id === originCellId)
FindCell(originCellId) ==
    LET IsOrigin(c) == c.id = originCellId
    IN  FirstOrNone(SelectSeq(cells, IsOrigin))

\* `${targetQ},${targetR}`
TargetId(originCell, rel) ==
    ToString(originCell.coord.q + rel.q) \o "," \o ToString(originCell.coord.r + rel.r)

\* Variant of PlaceLoop that collects the target ids last one first.
RECURSIVE PlaceLoopReversed(_, _, _, _, _)
PlaceLoopReversed(board, originCell, pieceCells, i, targetIds) ==
    LET At(targetId) ==
            IF targetId \notin DOMAIN board THEN NONE
            ELSE IF board[targetId] # EMPTY THEN NONE
            ELSE PlaceLoopReversed(board, originCell, pieceCells, i + 1,
                                   <<targetId>> \o targetIds)
    IN  IF i > Len(pieceCells) THEN [targetCellIds |-> targetIds]
        ELSE At(TargetId(originCell, pieceCells[i]))

\* The loop of canPlacePiece over piece.cells from index i.
RECURSIVE PlaceLoop(_, _, _, _, _)
PlaceLoop(board, originCell, pieceCells, i, targetIds) ==
    LET At(targetId) ==
            IF targetId \notin DOMAIN board THEN NONE
            ELSE IF board[targetId] # EMPTY THEN NONE
            ELSE PlaceLoop(board, originCell, pieceCells, i + 1, Append(targetIds, targetId))
    IN  IF i > Len(pieceCells) THEN [targetCellIds |-> targetIds]
        ELSE At(TargetId(originCell, pieceCells[i]))

\* Variant of canPlacePiece without the test of the origin cell: reading the
\* coordinate of a cell that was not found throws.
canPlacePieceUnguarded(board, piece, originCellId) ==
    LET From(originCell) ==
            IF originCell = NONE THEN THROWN
            ELSE PlaceLoop(board, originCell, piece.cells, 1, <<>>)
    IN  From(FindCell(originCellId))

canPlacePiece(board, piece, originCellId) ==
    LET \* if (!originCell) return null, then the loop over piece.cells
        From(originCell) ==
            IF originCell = NONE THEN NONE
            ELSE PlaceLoop(board, originCell, piece.cells, 1, <<>>)
    IN  From(FindCell(originCellId))

(***************************************************************************)
(* applyPlacement.  The function reads the caller's GameState `current`    *)
(* and works on objects: an object is held as [obj, val], obj telling      *)
(* whether it is the caller's own object ("input") or one the call created *)
(* ("fresh"), so that a write through an alias of the caller's object is   *)
(* seen in the caller's state after the call.                              *)
(***************************************************************************)
TheInput(v) == [obj |-> "input", val |-> v]

\* Variant of SpreadCopy that hands back the object itself instead of a copy.
AliasOfInput(v) == [obj |-> "input", val |-> v]

\* { ...current.board }, { ...dailyHits }: a new object with the same entries
SpreadCopy(v) == [obj |-> "fresh", val |-> v]

\* board[id] = state for every id of ids, on the object `board`
\* Variant of WriteAll that writes the first of the cells only.
WriteFirst(board, ids, state) ==
    [board EXCEPT !.val = [id \in DOMAIN board.val |->
        IF Len(ids) > 0 /\ id = ids[1] THEN state ELSE board.val[id]]]

WriteAll(board, ids, state) ==
    [board EXCEPT !.val = [id \in DOMAIN board.val |->
                              IF Includes(ids, id) THEN state ELSE board.val[id]]]

Max(a, b) == IF a > b THEN a ELSE b

\* const currentHits = dailyHits[cellId]; currentHits && currentHits > 0
HasHits(dailyHits, cellId) == cellId \in DOMAIN dailyHits /\ dailyHits[cellId] > 0

\* perCellHitCounts: for every numbered cell with hits left, the number of
\* cleared patterns of this placement it belongs to
PerCellHitCounts(dailyHits, clearedPatterns) ==
    LET counted ==
            {id \in DOMAIN dailyHits :
                /\ HasHits(dailyHits, id)
                /\ \E i \in 1..Len(clearedPatterns) : Includes(clearedPatterns[i].cellIds, id)}
    IN  [id \in counted |->
            SumSeq([i \in 1..Len(clearedPatterns) |->
                SumSeq([k \in 1..Len(clearedPatterns[i].cellIds) |->
                    IF clearedPatterns[i].cellIds[k] = id THEN 1 ELSE 0])])]

\* Variant of HitsAfter that takes one hit whatever the number of cleared patterns.
HitsAfterOne(before, hitCount) == Max(0, before - 1)

\* Variant of HitsAfter that adds the hits to the cell.
HitsAfterMore(before, hitCount) == before + hitCount

\* const after = Math.max(0, before - hitCount)
HitsAfter(before, hitCount) == Max(0, before - hitCount)

\* Variant of RemainingAfter that counts one hit whatever the cell lost.
RemainingLessOne(dailyRemainingHits, before, after) == dailyRemainingHits - 1

\* dailyRemainingHits -= before - after
RemainingAfter(dailyRemainingHits, before, after) == dailyRemainingHits - (before - after)

\* Lines 305-311: the loop over the entries of perCellHitCounts, for the counter.
RECURSIVE RemainingLoop(_, _, _, _, _)
RemainingLoop(dailyRemainingHits, ids, dailyHits, perCellHitCounts, k) ==
    LET Step(before) ==
            RemainingLoop(IF before <= 0 THEN dailyRemainingHits
                          ELSE RemainingAfter(dailyRemainingHits, before,
                                              HitsAfter(before, perCellHitCounts[ids[k]])),
                          ids, dailyHits, perCellHitCounts, k + 1)
    IN  IF k > Len(ids) THEN dailyRemainingHits
        ELSE Step(dailyHits[ids[k]])

\* Lines 289-318: the daily-mode bookkeeping.  Returns the dailyHits object the
\* local variable ends up naming, and the two counters.
DailyBookkeeping(current, clearedPatterns) ==
    LET \* no numbered cell was hit: the caller's own objects
        kept == [ dailyHits |-> TheInput(current.dailyHits),
                  dailyRemainingHits |-> current.dailyRemainingHits,
                  dailyCompleted |-> current.dailyCompleted ]
        \* lines 305-310: dailyHits[cellId] = after, on the copy
        Written(copied, perCellHitCounts) ==
            [copied EXCEPT !.val = [id \in DOMAIN copied.val |->
                IF id \in DOMAIN perCellHitCounts /\ copied.val[id] > 0
                THEN HitsAfter(copied.val[id], perCellHitCounts[id])
                ELSE copied.val[id]]]
        \* the entries of perCellHitCounts, in the order of the board's cells
        Ids(allCells, perCellHitCounts) ==
            FilterIn([i \in 1..Len(allCells) |-> allCells[i].id], DOMAIN perCellHitCounts)
        \* lines 312-315: if (dailyRemainingHits <= 0 && dailyTotalHits > 0)
        Counted(written, remaining) ==
            IF remaining <= 0 /\ current.dailyTotalHits > 0
            THEN [dailyHits |-> written, dailyRemainingHits |-> 0, dailyCompleted |-> TRUE]
            ELSE [dailyHits |-> written, dailyRemainingHits |-> remaining,
                  dailyCompleted |-> current.dailyCompleted]
        \* lines 303-316: dailyHits = { ...dailyHits } and the loop
        Hit(perCellHitCounts, copied) ==
            Counted(Written(copied, perCellHitCounts),
                    RemainingLoop(current.dailyRemainingHits, Ids(cells, perCellHitCounts),
                                  copied.val, perCellHitCounts, 1))
        \* if (Object.keys(perCellHitCounts).length > 0)
        With(perCellHitCounts) ==
            IF DOMAIN perCellHitCounts = {} THEN kept
            ELSE Hit(perCellHitCounts, SpreadCopy(current.dailyHits))
    IN  IF ~(Len(clearedPatterns) > 0 /\ DOMAIN current.dailyHits # {}) THEN kept
        ELSE With(PerCellHitCounts(current.dailyHits, clearedPatterns))

\* Variant of ClearCells that empties the whole board.
ClearAll(board, clearedCellIds) == [board EXCEPT !.val = [id \in DOMAIN board.val |-> EMPTY]]

\* Variant of ClearCells that leaves the cleared cells filled.
KeepCells(board, clearedCellIds) == board

\* Lines 338-340: every cell of a cleared pattern becomes empty.
ClearCells(board, clearedCellIds) == WriteAll(board, clearedCellIds, EMPTY)

\* Variant of RefillNumbered that leaves the numbered cells as the clears left them.
RefillNone(board, dailyHits) == board

\* Lines 344-350: numbered cells with hits left stay filled.
RefillNumbered(board, dailyHits) ==
    IF DOMAIN dailyHits = {} THEN board
    ELSE [board EXCEPT !.val = [id \in DOMAIN board.val |->
                                  IF id \in DOMAIN dailyHits /\ dailyHits[id] > 0
                                  THEN FILLED ELSE board.val[id]]]

\* Object.values(board).every((state) => state === 'empty')
IsBoardEmpty(board) == \A id \in DOMAIN board : board[id] = EMPTY

\* Variant of BoardClearedBonus that grants the bonus for every clear.
BonusAlways(wasBoardEmptyBefore, isBoardEmptyAfter) == 25

BoardClearedBonus(wasBoardEmptyBefore, isBoardEmptyAfter) ==
    IF ~wasBoardEmptyBefore /\ isBoardEmptyAfter THEN 25 ELSE 0

GoldenBonus(mode, goldenCleared) ==
    IF mode = "endless" /\ goldenCleared THEN 10 ELSE 0

Tenth == DblOfFraction(1, 10)   \* the literal 0.1
Half == DblOfFraction(5, 10)    \* the literal 0.5

\* Variant of ComboMultiplier that shrinks with the number of clears: 1 / n^2.
ComboShrinking(numClears) == DblOfFraction(1, numClears * numClears)

ComboMultiplier(numClears) ==
    DblAdd(IntToDbl(1), DblMul(Half, IntToDbl(numClears - 1)))

StreakMultiplier(streak) ==
    DblAdd(IntToDbl(1), DblMul(Tenth, IntToDbl(streak)))

BasePoints(numClears, boardClearedBonus, goldenBonus) ==
    10 * numClears + boardClearedBonus + goldenBonus

\* Math.round(basePoints * comboMultiplier * streakMultiplier)
PointsGained(basePoints, comboMultiplier, streakMultiplier) ==
    MathRound(DblMul(DblMul(IntToDbl(basePoints), comboMultiplier), streakMultiplier))

\* Variant of ForbiddenFlowers that forbids no flower.
NoForbiddenFlowers(previousGoldenCellId) == {}

\* Lines 383-391: the flowers that contain the golden cell just cleared.
ForbiddenFlowers(previousGoldenCellId) ==
    IF previousGoldenCellId = NULL THEN {}
    ELSE {flower.id : flower \in
             {f \in Range(FLOWER_PATTERNS) : Includes(f.cellIds, previousGoldenCellId)}}

\* The caller's state object after the call: a field changes only when the call
\* wrote through the caller's own object.
CallerAfter(current, board, dailyHits) ==
    [current EXCEPT
        !.board = IF board.obj = "input" THEN board.val ELSE @,
        !.dailyHits = IF dailyHits.obj = "input" THEN dailyHits.val ELSE @]

\* What applyPlacement hands back here:
\*   result : the PlacementResult, NONE for null
\*   current: the caller's state object as the call leaves it
\*   locals : basePoints, the two bonuses and the board as it is when
\*            isBoardEmptyAfter is computed (line 370); no clear: no bonus computed
\* Lines 352-410, on the board after the clears and the refill of the numbered
\* cells: the score, the respawn of the golden cell and the return.
AfterClears(current, placedCellIds, clears, daily, board, goldenCleared, shuffled) ==
    LET \* lines 367-376: the two bonuses
        bonuses ==
            [ boardClearedBonus |->
                  BoardClearedBonus(IsBoardEmpty(current.board), IsBoardEmpty(board.val)),
              goldenBonus |-> GoldenBonus(current.mode, goldenCleared) ]
        \* line 378, with the numbers it is computed from
        Scored(with, basePoints, comboMultiplier, streakMultiplier) ==
            [ basePoints |-> basePoints,
              boardClearedBonus |-> with.boardClearedBonus,
              goldenBonus |-> with.goldenBonus,
              comboMultiplier |-> comboMultiplier,
              streakMultiplier |-> streakMultiplier,
              pointsGained |-> PointsGained(basePoints, comboMultiplier, streakMultiplier) ]
        \* lines 363-377
        ScoreWith(with, numClears) ==
            Scored(with,
                   BasePoints(numClears, with.boardClearedBonus, with.goldenBonus),
                   ComboMultiplier(numClears),
                   StreakMultiplier(current.streak))
        \* goldenCellId = newGolden, on the board spawnGoldenCell worked on
        Respawned(spawned) ==
            [board |-> [board EXCEPT !.val = spawned.board], goldenCellId |-> spawned.id]
        \* lines 380-394: the golden cell is respawned when it was cleared (endless)
        respawn ==
            IF current.mode = "endless" /\ goldenCleared
            THEN Respawned(spawnGoldenCell(board.val, ForbiddenFlowers(current.goldenCellId),
                                           shuffled))
            ELSE [board |-> board,
                  goldenCellId |-> IF goldenCleared THEN NULL ELSE current.goldenCellId]
        \* lines 396-410: the return; `respawned` is the board and the golden cell
        \* after the respawn
        ClearResult(score, respawned) ==
            [ result |->
                [ board |-> respawned.board.val,
                  clearedCellIds |-> clears.clearedCellIds,
                  clearedPatterns |-> clears.clearedPatterns,
                  placedCellIds |-> placedCellIds,
                  pointsGained |-> score.pointsGained,
                  comboMultiplier |-> score.comboMultiplier,
                  streakMultiplier |-> score.streakMultiplier,
                  dailyHits |-> daily.dailyHits.val,
                  dailyTotalHits |-> current.dailyTotalHits,
                  dailyRemainingHits |-> daily.dailyRemainingHits,
                  dailyCompleted |-> daily.dailyCompleted,
                  goldenCellId |-> respawned.goldenCellId,
                  goldenCleared |-> goldenCleared ],
              current |-> CallerAfter(current, respawned.board, daily.dailyHits),
              locals |-> [ basePoints |-> score.basePoints,
                           boardClearedBonus |-> score.boardClearedBonus,
                           goldenBonus |-> score.goldenBonus,
                           boardAfterClears |-> board.val ] ]
    IN  ClearResult(ScoreWith(bonuses, Len(clears.clearedPatterns)), respawn)

\* Lines 320-350: no clear returns at once; otherwise the cleared cells are
\* emptied and the numbered cells with hits left are filled again.
Resolve(current, placedCellIds, board, clears, daily, shuffled) ==
    LET \* lines 320-336: the return when no pattern was cleared
        noClearResult ==
            [ result |->
                [ board |-> board.val,
                  clearedCellIds |-> <<>>,
                  clearedPatterns |-> <<>>,
                  placedCellIds |-> placedCellIds,
                  pointsGained |-> 0,
                  comboMultiplier |-> IntToDbl(1),
                  streakMultiplier |-> IntToDbl(1),
                  dailyHits |-> daily.dailyHits.val,
                  dailyTotalHits |-> current.dailyTotalHits,
                  dailyRemainingHits |-> daily.dailyRemainingHits,
                  dailyCompleted |-> daily.dailyCompleted,
                  goldenCellId |-> current.goldenCellId,
                  goldenCleared |-> FALSE ],
              current |-> CallerAfter(current, board, daily.dailyHits),
              locals |-> [ basePoints |-> 0, boardClearedBonus |-> 0, goldenBonus |-> 0,
                           boardAfterClears |-> board.val ] ]
        \* lines 355-361: whether the golden cell was among the cleared cells
        goldenCleared ==
            /\ current.mode = "endless"
            /\ current.goldenCellId # NULL
            /\ Includes(clears.clearedCellIds, current.goldenCellId)
    IN  IF Len(clears.clearedPatterns) = 0 THEN noClearResult
        ELSE AfterClears(current, placedCellIds, clears, daily,
                         RefillNumbered(ClearCells(board, clears.clearedCellIds),
                                        daily.dailyHits.val),
                         goldenCleared, shuffled)

\* Lines 278-318: findClears on the board with the piece, then the daily state.
Settle(current, placedCellIds, board, clears, shuffled) ==
    Resolve(current, placedCellIds, board, clears,
            DailyBookkeeping(current, clears.clearedPatterns), shuffled)

\* Lines 272-276: the copy of the board with the piece's cells filled.
Place(current, placedCellIds, board, shuffled) ==
    Settle(current, placedCellIds, board, findClears(board.val), shuffled)

\* Lines 269-270: if (!canPlace) return null
Attempt(current, canPlace, shuffled) ==
    IF canPlace = THROWN THEN [result |-> THROWN, current |-> current, locals |-> NONE]
    ELSE IF canPlace = NONE THEN [result |-> NONE, current |-> current, locals |-> NONE]
    ELSE Place(current, canPlace.targetCellIds,
               WriteAll(SpreadCopy(current.board), canPlace.targetCellIds, FILLED),
               shuffled)

\* applyPlacement(current, piece, originCellId), for one outcome `shuffled` of the
\* shuffle in spawnGoldenCell.
applyPlacement(current, piece, originCellId, shuffled) ==
    Attempt(current, canPlacePiece(current.board, piece.shape, originCellId), shuffled)

(***************************************************************************)
(* hasAnyValidMove and the hands a deal can give.                          *)
(***************************************************************************)
FakeGame(board, hand) ==
    [ mode |-> "endless", board |-> board, score |-> 0, streak |-> 0,
      hand |-> hand, handSlots |-> [i \in 1..Len(hand) |-> hand[i].id],
      gameOver |-> FALSE, moves |-> 0,
      dailyHits |-> <<>>, dailyTotalHits |-> 0, dailyRemainingHits |-> 0,
      dailyCompleted |-> FALSE, goldenCellId |-> NULL ]

\* Variant of AnyPlacement that gives up after the first piece of the hand.
RECURSIVE AnyPlacementFirstPiece(_, _, _, _, _)
AnyPlacementFirstPiece(fakeGame, hand, allCells, lo, hi) ==
    LET After(out) == [found |-> out.result \notin {NONE, THROWN}, fakeGame |-> out.current]
        Then(first, mid) ==
            IF first.found THEN first
            ELSE AnyPlacementFirstPiece(first.fakeGame, hand, allCells, mid + 1, hi)
    IN  IF lo > hi \/ lo > Len(allCells) THEN [found |-> FALSE, fakeGame |-> fakeGame]
        ELSE IF lo = hi
        THEN After(applyPlacement(fakeGame, hand[((lo - 1) \div Len(allCells)) + 1],
                                  allCells[((lo - 1) % Len(allCells)) + 1].id, allCells))
        ELSE Then(AnyPlacementFirstPiece(fakeGame, hand, allCells, lo, (lo + hi) \div 2),
                  (lo + hi) \div 2)

\* The two loops, over the hand and over the cells of the board: the calls
\* number lo to hi, call k being the one for piece (k - 1) div 49 and cell
\* (k - 1) mod 49, in the order of the loops (the run is split in two halves,
\* the second starting where the first ended).  Every call of applyPlacement is
\* given the same fakeGame object, which holds the caller's board and hand; the
\* loops hand back whether a call returned a result and fakeGame as the calls
\* left it.
RECURSIVE AnyPlacement(_, _, _, _, _)
AnyPlacement(fakeGame, hand, allCells, lo, hi) ==
    LET \* const result = applyPlacement(fakeGame, piece, cell.id); if (result) return true
        After(out) == [found |-> out.result \notin {NONE, THROWN}, fakeGame |-> out.current]
        Then(first, mid) ==
            IF first.found THEN first
            ELSE AnyPlacement(first.fakeGame, hand, allCells, mid + 1, hi)
    IN  IF lo > hi THEN [found |-> FALSE, fakeGame |-> fakeGame]
        ELSE IF lo = hi
        THEN After(applyPlacement(fakeGame, hand[((lo - 1) \div Len(allCells)) + 1],
                                  allCells[((lo - 1) % Len(allCells)) + 1].id, allCells))
        ELSE Then(AnyPlacement(fakeGame, hand, allCells, lo, (lo + hi) \div 2),
                  (lo + hi) \div 2)

\* hasAnyValidMove with fakeGame as the call left it
AnyMove(board, hand) ==
    AnyPlacement(FakeGame(board, hand), hand, cells, 1, Len(hand) * Len(cells))

hasAnyValidMove(board, hand) == AnyMove(board, hand).found

(***************************************************************************)
(* getTodaySeed and the random streams.  A stream is the function `random`  *)
(* a call is given:                                                        *)
(* the generator makeSeededRandom returns, whose state is a 32-bit number  *)
(* held in limbs, or Math.random, held as the outcomes of its draws, which *)
(* come round again after the last one.                                    *)
(***************************************************************************)
\* getTodaySeed() on the calendar day `today` = [y, m, d] of the local clock.
\* The hash is held as its 32 bits (in limbs), which `| 0` here and `>>> 0` in
\* makeSeededRandom both keep.
getTodaySeed(today) ==
    LET \* the char codes of the decimal text of a number from 0 to 999999
        Width(n) == CHOOSE k \in 1..6 : (k = 1 \/ n >= 10 ^ (k - 1)) /\ n < 10 ^ k
        Text(n) == [i \in 1..Width(n) |-> 48 + ((n \div (10 ^ (Width(n) - i))) % 10)]
        \* `${y}-${m}-${d}`
        key == Text(today.y) \o <<45>> \o Text(today.m) \o <<45>> \o Text(today.d)
        Low32(x) == <<BigLimb(x, 1), BigLimb(x, 2), BigLimb(x, 3) % 16>>
        \* hash = (hash * 31 + key.charCodeAt(i)) | 0, from i on
        RECURSIVE Hash(_, _)
        Hash(i, hash) ==
            IF i > Len(key) THEN hash
            ELSE Hash(i + 1, Low32(BigAdd(BigMul(hash, <<31>>), <<key[i]>>)))
    IN  Hash(1, <<0, 0, 0>>)

makeSeededRandom(seed) == [kind |-> "seeded", state |-> seed, values |-> <<>>, at |-> 0]

\* One call random(): the number returned and the stream after it.
Draw(random) ==
    LET \* x >>> 0
        Low32(x) == <<BigLimb(x, 1), BigLimb(x, 2), BigLimb(x, 3) % 16>>
        \* state / 0xffffffff, 0xffffffff being 65535 * 65537: the quotient to 98
        \* bits with a sticky bit for the remainders, rounded
        Sticky(first, second) ==
            BigAdd(BigShl(second.q, 1), <<IF first.r = 0 /\ second.r = 0 THEN 0 ELSE 1>>)
        OverTwo(first) == Sticky(first, BigDivSmall(first.q, 65537))
        Quotient(state) == RoundToDouble(OverTwo(BigDivSmall(BigShl(state, 98), 65535)), -99)
        \* state = (state * 1664525 + 1013904223) >>> 0; return state / 0xffffffff
        Seeded(state) == [value |-> Quotient(state), random |-> [random EXCEPT !.state = state]]
    IN  IF random.kind = "seeded"
        THEN Seeded(Low32(BigAdd(BigMul(random.state, BigFromInt(1664525)),
                                 BigFromInt(1013904223))))
        ELSE [value |-> random.values[random.at],
              random |-> [random EXCEPT !.at = (random.at % Len(random.values)) + 1]]

\* Variant of RandomIndex that rounds to the nearest integer.
RandomIndexRounded(value, n) == MathRound(DblMul(value, IntToDbl(n)))

\* Math.floor(value * n) for a number value just drawn
RandomIndex(value, n) ==
    LET MathFloor(x) ==
            IF BigIsZero(x.m) THEN 0
            ELSE IF x.e >= 0 THEN BigToInt(BigShl(x.m, x.e))
            ELSE BigToInt(BigShr(x.m, -x.e))
    IN  MathFloor(DblMul(value, IntToDbl(n)))

\* randomOf(arr, random) for the number `value` the call of random gave; NONE
\* is undefined, what arr[arr.length] is
randomOf(arr, value) ==
    LET At(idx) == IF idx < Len(arr) THEN arr[idx + 1] ELSE NONE
    IN  At(RandomIndex(value, Len(arr)))

(***************************************************************************)
(* dealHand and dealPlayableHand.                                          *)
(***************************************************************************)
\* Variant of ShapeLoop that accepts the first shape drawn.
ShapeLoopOnce(drawn, sizes, totalCells, attempts) ==
    LET With(shape) ==
            IF shape = NONE THEN [shape |-> THROWN, random |-> drawn.random, sizes |-> sizes]
            ELSE [shape |-> shape, random |-> drawn.random, sizes |-> Append(sizes, shape.size)]
    IN  With(randomOf(ALL_PIECE_SHAPES, drawn.value))

\* Variant of ShapeLoop that draws again up to 40 times.
RECURSIVE ShapeLoopForty(_, _, _, _)
ShapeLoopForty(drawn, sizes, totalCells, attempts) ==
    LET With(shape) ==
            IF shape = NONE THEN [shape |-> THROWN, random |-> drawn.random, sizes |-> sizes]
            ELSE IF shape.size = 4 /\ totalCells + shape.size > 10 /\ attempts < 40
            THEN ShapeLoopForty(Draw(drawn.random), Append(sizes, shape.size), totalCells,
                                attempts + 1)
            ELSE [shape |-> shape, random |-> drawn.random, sizes |-> Append(sizes, shape.size)]
    IN  With(randomOf(ALL_PIECE_SHAPES, drawn.value))

\* The shape of one slot: `drawn` is the call of random for the shape, sizes
\* the sizes of the shapes drawn for this slot before.  Reading shape.size of
\* undefined throws.
RECURSIVE ShapeLoop(_, _, _, _)
ShapeLoop(drawn, sizes, totalCells, attempts) ==
    LET With(shape) ==
            IF shape = NONE THEN [shape |-> THROWN, random |-> drawn.random, sizes |-> sizes]
            ELSE IF shape.size = 4 /\ totalCells + shape.size > 10 /\ attempts < 20
            THEN ShapeLoop(Draw(drawn.random), Append(sizes, shape.size), totalCells, attempts + 1)
            ELSE [shape |-> shape, random |-> drawn.random, sizes |-> Append(sizes, shape.size)]
    IN  With(randomOf(ALL_PIECE_SHAPES, drawn.value))

\* The loop of dealHand from slot i on.  drawn lists, slot by slot, the sizes of
\* the shapes drawn; now is the text of what Date.now() gives during the call.
RECURSIVE DealSlots(_, _, _, _, _, _)
DealSlots(i, hand, totalCells, random, drawn, now) ==
    LET \* shape.cells.map((c) => rotateAxial(c, rotation)), or shape.cells as it is
        Rotated(shapeCells, rotation) ==
            IF rotation = 0 THEN shapeCells
            ELSE [k \in 1..Len(shapeCells) |-> rotateAxial(shapeCells[k], rotation)]
        \* random().toString(36).slice(2): the digits after "0.", which tell the
        \* number; the texts of 0 and of 1 have no such digits
        Suffix(value) ==
            IF BigIsZero(value.m) \/ value = IntToDbl(1) THEN ""
            ELSE ToString(value.m) \o "e" \o ToString(value.e)
        Piece(shape, rotation, idSuffix) ==
            [ id |-> "piece-" \o now \o "-" \o ToString(i) \o "-" \o idSuffix,
              shape |-> [shape EXCEPT !.cells = Rotated(shape.cells, rotation)] ]
        Push(picked, turned, named) ==
            DealSlots(i + 1,
                      Append(hand, Piece(picked.shape, RandomIndex(turned.value, 6),
                                         Suffix(named.value))),
                      totalCells + picked.shape.size, named.random,
                      Append(drawn, picked.sizes), now)
        Turn(picked, turned) == Push(picked, turned, Draw(turned.random))
        Slot(picked) ==
            IF picked.shape = THROWN
            THEN [hand |-> hand, random |-> picked.random,
                  drawn |-> Append(drawn, picked.sizes), thrown |-> TRUE]
            ELSE Turn(picked, Draw(picked.random))
    IN  IF i >= 3 THEN [hand |-> hand, random |-> random, drawn |-> drawn, thrown |-> FALSE]
        ELSE Slot(ShapeLoop(Draw(random), <<>>, totalCells, 0))

\* dealHand(random): the hand, the stream after the call, the sizes drawn, and
\* whether the call threw instead of returning
dealHand(random, now) == DealSlots(0, <<>>, 0, random, <<>>, now)

\* What the calls of dealHand and of hasAnyValidMove of one call of
\* dealPlayableHand return: hand after hand from the stream, up to the first
\* hand with a valid move on the board, the first call that throws, or the
\* n-th hand, which the loop does not ask about.  Both are functions of their
\* arguments; dealPlayableHand below reads here what its calls return.
RECURSIVE DealtHands(_, _, _, _)
DealtHands(board, random, now, n) ==
    LET Rest(dealt, playable) ==
            << [ hand |-> dealt.hand, random |-> dealt.random, thrown |-> dealt.thrown,
                 drawn |-> dealt.drawn, playable |-> playable ] >>
            \o (IF dealt.thrown \/ playable THEN <<>>
                ELSE DealtHands(board, dealt.random, now, n - 1))
        Then(dealt) ==
            Rest(dealt, n > 1 /\ ~dealt.thrown /\ hasAnyValidMove(board, dealt.hand))
    IN  IF n = 0 THEN <<>> ELSE Then(dealHand(random, now))

\* dealPlayableHand up to the loop: let hand = dealHand(random); attempt = 0.
\* The call is a record of its arguments and locals; dealt lists the hands
\* dealt so far, checked what hasAnyValidMove gave for the hands it was asked
\* about, pc is "loop", "returned" or "thrown" (dealHand threw), out the hand
\* returned (no piece until then); hands is what the calls of dealHand and
\* hasAnyValidMove of this call return, one hand more than the loop has turns;
\* start is the stream as the call got it.
DealStart(board, maxAttempts, random, now) ==
    LET First(hands) ==
            [ fn |-> "dealPlayableHand", board |-> board, maxAttempts |-> maxAttempts,
              start |-> random, now |-> now, hands |-> hands, attempt |-> 0,
              hand |-> hands[1].hand, random |-> hands[1].random,
              dealt |-> <<hands[1].hand>>, checked |-> <<>>,
              pc |-> IF hands[1].thrown THEN "thrown" ELSE "loop", out |-> <<>> ]
    IN  First(DealtHands(board, random, now, maxAttempts + 1))

\* Variant of Redeal that counts the attempt and keeps the hand it had.
RedealKeepingHand(p) ==
    LET Next(dealt) ==
            [p EXCEPT !.random = dealt.random,
                      !.dealt = Append(@, dealt.hand), !.checked = Append(@, FALSE),
                      !.attempt = @ + 1,
                      !.pc = IF dealt.thrown THEN "thrown" ELSE "loop"]
    IN  Next(p.hands[Len(p.dealt) + 1])

\* The end of a turn of the loop whose hand has no valid move:
\* hand = dealHand(random); attempt++
Redeal(p) ==
    LET Next(dealt) ==
            [p EXCEPT !.hand = dealt.hand, !.random = dealt.random,
                      !.dealt = Append(@, dealt.hand), !.checked = Append(@, FALSE),
                      !.attempt = @ + 1,
                      !.pc = IF dealt.thrown THEN "thrown" ELSE "loop"]
    IN  Next(p.hands[Len(p.dealt) + 1])

\* Variant of DealStep that returns the hand without asking hasAnyValidMove.
DealStepUnchecked(p) == [p EXCEPT !.pc = "returned", !.out = p.hand]

\* One turn of the for loop, or the return after it.
DealStep(p) ==
    IF p.attempt < p.maxAttempts
    THEN IF p.hands[Len(p.dealt)].playable   \* hasAnyValidMove(board, hand)
         THEN [p EXCEPT !.checked = Append(@, TRUE), !.pc = "returned", !.out = p.hand]
         ELSE Redeal(p)
    ELSE [p EXCEPT !.pc = "returned", !.out = p.hand]

RECURSIVE DealRun(_)
DealRun(p) == IF p.pc = "loop" THEN DealRun(DealStep(p)) ELSE p

\* dealPlayableHand(board, maxAttempts, random): the call when it is over
dealPlayableHand(board, maxAttempts, random, now) ==
    DealRun(DealStart(board, maxAttempts, random, now))

(***************************************************************************)
(* createDailyGameState, with its draws.                                   *)
(***************************************************************************)
\* The index in flowerPatterns of centerFlower: the first flower whose average
\* axial coordinate is closest to (0,0).  The squared distances
\* (sumQ/count)^2 + (sumR/count)^2 are compared as fractions.
centerFlower ==
    LET Sum(pattern, axis) ==
            SumSeq([i \in 1..Len(pattern.cellIds) |->
                        IF axis = "q" THEN CoordOf(pattern.cellIds[i]).q
                        ELSE CoordOf(pattern.cellIds[i]).r])
        Square(x) == x * x
        Over(pattern) == Square(Sum(pattern, "q")) + Square(Sum(pattern, "r"))
        Closer(a, b) ==
            Over(a) * Square(Len(b.cellIds)) < Over(b) * Square(Len(a.cellIds))
        \* distSq < bestDistSq: a later flower takes over only when strictly closer
        Best(flowers) ==
            CHOOSE f \in 1..Len(flowers) :
                /\ Len(flowers[f].cellIds) > 0
                /\ \A g \in 1..Len(flowers) :
                      \/ Len(flowers[g].cellIds) = 0
                      \/ IF g < f THEN Closer(flowers[f], flowers[g])
                         ELSE ~Closer(flowers[g], flowers[f])
    IN  Best(FLOWER_PATTERNS)

\* Variant of HandRandom that deals from a generator seeded by Math.random:
\* makeSeededRandom(Math.floor(Math.random() * 16)).
HandRandomReseeded(seeded, ambient) ==
    makeSeededRandom(BigFromInt(RandomIndex(ambient.values[ambient.at], 16)))

\* The generator the hand is dealt from: const hand = dealPlayableHand(board, 30, random)
HandRandom(seeded, ambient) == seeded

\* The loop over flowerPatterns from flower f on: idx and value are drawn for
\* every flower but the central one.  available.splice(idx, 1)[0] is undefined
\* when idx is the length, and dailyHits[undefined] is the key "undefined".
RECURSIVE LayoutLoop(_, _, _, _)
LayoutLoop(f, dailyHits, totalHits, random) ==
    LET \* const previous = dailyHits[cellId] ?? 0; dailyHits[cellId] = previous + value
        Put(cellId, value, after) ==
            IF cellId \in DOMAIN dailyHits
            THEN LayoutLoop(f + 1, [dailyHits EXCEPT ![cellId] = @ + value],
                            totalHits + value, after)
            ELSE LayoutLoop(f + 1,
                            [id \in DOMAIN dailyHits \cup {cellId} |->
                                IF id = cellId THEN value ELSE dailyHits[id]],
                            totalHits + value, after)
        Value(cellId, second) ==
            Put(cellId, 2 + RandomIndex(second.value, 3), second.random)
        Spliced(available, idx) ==
            IF idx < Len(available) THEN available[idx + 1] ELSE "undefined"
        Cell(available, first) ==
            Value(Spliced(available, RandomIndex(first.value, Len(available))),
                  Draw(first.random))
    IN  IF f > Len(FLOWER_PATTERNS)
        THEN [dailyHits |-> dailyHits, totalHits |-> totalHits, random |-> random]
        ELSE IF f = centerFlower \/ Len(FLOWER_PATTERNS[f].cellIds) = 0
        THEN LayoutLoop(f + 1, dailyHits, totalHits, random)
        ELSE Cell(FLOWER_PATTERNS[f].cellIds, Draw(random))

\* The state createDailyGameState returns for the hand dealPlayableHand gave, or
\* the exception that call threw; deal is that call when it is over.
DailyState(seed, layout, board, dealt) ==
    [ thrown |-> dealt.pc = "thrown",
      deal |-> dealt,
      game |->
        IF dealt.pc = "thrown" THEN NONE
        ELSE [ mode |-> "daily", board |-> board, score |-> 0, streak |-> 0,
               hand |-> dealt.out,
               handSlots |-> [i \in 1..Len(dealt.out) |-> dealt.out[i].id],
               gameOver |-> FALSE, moves |-> 0,
               dailyHits |-> layout.dailyHits,
               dailyTotalHits |-> layout.totalHits,
               dailyRemainingHits |-> layout.totalHits,
               dailyCompleted |-> FALSE, dailySeed |-> seed,
               dailyHandDealCount |-> 0, goldenCellId |-> NULL ] ]

\* const hand = dealPlayableHand(board, 30, random), and the return
DailyDeal(seed, layout, board, now, random) ==
    DailyState(seed, layout, board, dealPlayableHand(board, 30, random, now))

\* board[id] = 'filled' for the entries of dailyHits with hits > 0; with no entry
\* the board stays as createEmptyBoard built it.  The hand is dealt on the board
\* so marked; the arguments of the call are values when it is made.
DailyMark(seed, layout, now, ambient) ==
    LET marked ==
            IF DOMAIN layout.dailyHits = {} THEN createEmptyBoard
            ELSE [id \in cellSet \cup {k \in DOMAIN layout.dailyHits : layout.dailyHits[k] > 0} |->
                     IF id \in DOMAIN layout.dailyHits /\ layout.dailyHits[id] > 0
                     THEN FILLED ELSE EMPTY]
    IN  CHOOSE state \in {DailyDeal(seed, layout, board, now, random) :
                              board \in {marked},
                              random \in {HandRandom(layout.random, ambient)}} : TRUE

\* createDailyGameState() called on the day `today` at the time `now`, Math.random
\* being the stream `ambient`: whether it threw, and the state it returned.
createDailyGameStateOn(today, now, ambient) ==
    LET Laid(seed) ==
            CHOOSE state \in {DailyMark(seed, layout, now, ambient) :
                                  layout \in {LayoutLoop(1, <<>>, 0, makeSeededRandom(seed))}} : TRUE
    IN  CHOOSE state \in {Laid(seed) : seed \in {getTodaySeed(today)}} : TRUE

(***************************************************************************)
(* dealDailyHand.                                                          *)
(***************************************************************************)
\* Variant of Advance that discards nothing.
AdvanceNot(random, count) == random

\* for (let i = 0; i < count; i++) random(): the generator after the loop.  The
\* calls are made half by half, the generator the first half left being worked
\* out (its kind is read) before the second half is made.
RECURSIVE Advance(_, _)
Advance(random, count) ==
    IF count <= 0 \/ random.kind \notin {"seeded", "Math.random"} THEN random
    ELSE IF count = 1 THEN Draw(random).random
    ELSE Advance(Advance(random, count \div 2), count - (count \div 2))

estimatedRandomCallsPerHand == 1000

\* return dealPlayableHand(board, 30, random): the generator handed over and
\* the call when it is over
DailyHandFrom(board, random, now) ==
    [start |-> random, call |-> dealPlayableHand(board, 30, random, now)]

\* dealDailyHand(board, dailySeed, handDealCount)
dealDailyHand(board, dailySeed, handDealCount, now) ==
    CHOOSE dealt \in {DailyHandFrom(board, random, now) :
                          random \in {Advance(makeSeededRandom(dailySeed),
                                              handDealCount * estimatedRandomCallsPerHand)}} : TRUE

(***************************************************************************)
(* Bounds of the model.                                                    *)
(***************************************************************************)
MaxFocus == 1       \* placements are tried at the centres of the first MaxFocus outer flowers
MaxShapes == 2      \* the piece to place is one of the first MaxShapes catalog shapes
MaxPrefilled == 3   \* at most so many patterns were filled up to the piece's cells
MaxStreak == 4      \* the incoming streak is 0..MaxStreak
MaxHits == 2        \* a numbered cell has 0..MaxHits hits left
MaxLayout == 1      \* the numbered cell of a flower is one of its first MaxLayout petals
MaxShuffle == 1     \* outcomes of the shuffle: the cells rotated by 0..MaxShuffle flowers
MaxDeal == 2        \* a dealt hand is three pieces of one of the first MaxDeal catalog shapes
MaxHand == 2        \* hasAnyValidMove is called with hands of 0..MaxHand pieces
MaxCycle == 3       \* the outcomes of Math.random come round after 1..MaxCycle draws
MaxDay == 3         \* the calendar days are the first MaxDay days of a month
MaxAttempts == 2    \* maxAttempts is 0..MaxAttempts, or the default
DefaultAttempts == 30   \* maxAttempts = 30
MaxDraws == 264     \* a seeded stream is followed for its first MaxDraws outputs
MaxDealCount == 1   \* handDealCount is 0..MaxDealCount

(***************************************************************************)
(* Outcomes of the random draws.                                           *)
(***************************************************************************)
\* Outcomes of the Fisher-Yates shuffle of spawnGoldenCell: the board's cells
\* starting from the first cell of a flower, in cyclic order.
Shuffled(k) ==
    LET Rotation(allCells, by) ==
            [i \in 1..Len(allCells) |-> allCells[((i - 1 + by) % Len(allCells)) + 1]]
    IN  Rotation(cells, 7 * k)

Shuffles == {Shuffled(k) : k \in 0..MaxShuffle}

\* Outcomes of dealPlayableHand: a hand dealHand can give.  The loop returns the
\* first playable hand it dealt, or the last hand dealt when none was playable,
\* so every hand dealHand can give is a possible outcome.
Deals ==
    { [i \in 1..3 |-> [id |-> "piece-" \o ToString(i - 1), shape |-> ALL_PIECE_SHAPES[k]]] :
        k \in 1..MaxDeal }

(***************************************************************************)
(* Fresh games.                                                            *)
(***************************************************************************)
\* The state createInitialGameState returns, `spawned` being the golden cell
\* and the board spawnGoldenCell left.
InitialGame(spawned, hand) ==
    [ mode |-> "endless", board |-> spawned.board, score |-> 0, streak |-> 0,
      hand |-> hand, handSlots |-> [i \in 1..Len(hand) |-> hand[i].id],
      gameOver |-> ~hasAnyValidMove(spawned.board, hand), moves |-> 0,
      dailyHits |-> <<>>, dailyTotalHits |-> 0, dailyRemainingHits |-> 0,
      dailyCompleted |-> FALSE, goldenCellId |-> spawned.id ]

createInitialGameState(shuffled, hand) ==
    InitialGame(spawnGoldenCell(createEmptyBoard, {}, shuffled), hand)

\* Petal `pos` (from 0: the centre) of every outer flower, the numbered cells of
\* a daily layout.
NumberedCells(pos) ==
    LET Petals(flowers) == {flowers[f].cellIds[pos + 1] : f \in 2..Len(flowers)}
    IN  Petals(FLOWER_PATTERNS)

\* Variant of createDailyGameState that returns a daily game with the golden
\* cell of a fresh endless game.
createDailyGameStateGolden(idx, value, hand) ==
    [createInitialGameState(Shuffled(0), hand) EXCEPT !.mode = "daily"]

\* createDailyGameState, for one outcome of the seeded draws: every outer flower
\* gets its cell number idx (from 0) as numbered cell, with `value` hits.
createDailyGameState(idx, value, hand) ==
    LET Game(dailyHits, totalHits) ==
            [ mode |-> "daily",
              board |-> [id \in cellSet |->
                            IF id \in DOMAIN dailyHits /\ dailyHits[id] > 0
                            THEN FILLED ELSE EMPTY],
              score |-> 0, streak |-> 0,
              hand |-> hand, handSlots |-> [i \in 1..Len(hand) |-> hand[i].id],
              gameOver |-> FALSE, moves |-> 0,
              dailyHits |-> dailyHits, dailyTotalHits |-> totalHits,
              dailyRemainingHits |-> totalHits,
              dailyCompleted |-> FALSE, goldenCellId |-> NULL ]
        Numbered(numbered) ==
            Game([id \in numbered |-> value], value * Cardinality(numbered))
    IN  Numbered(NumberedCells(idx))

MaxInitialHits == 4     \* const value = 2 + Math.floor(random() * 3), at most

FreshGames ==
    {createInitialGameState(shuffled, hand) : shuffled \in Shuffles, hand \in Deals}
    \cup {createDailyGameState(idx, MaxInitialHits, hand) : idx \in 1..MaxLayout, hand \in Deals}

(***************************************************************************)
(* The games a session can start from.  The App persists its GameState on  *)
(* every change and loadInitialGameFromStorage hands the persisted game    *)
(* back at start-up (App.tsx:567-590), so a session starts either from a   *)
(* fresh game or in a state an earlier session reached.  The saved games   *)
(* below are positions around one intended move: some patterns through the *)
(* cells the last piece in hand will cover are filled up to those cells.   *)
(***************************************************************************)
FilledCells(board) == {id \in DOMAIN board : board[id] = FILLED}

BoardOf(ids) == [id \in cellSet |-> IF id \in ids THEN FILLED ELSE EMPTY]

FamilyPieces == {[id |-> "piece-0", shape |-> ALL_PIECE_SHAPES[i]] : i \in 1..MaxShapes}

\* the pieces of the first catalog shape, the single cell
SingleCellPieces == {p \in FamilyPieces : Len(p.shape.cells) = 1}

FocusIds == {axialToId(flowerCenters[i + 1]) : i \in 1..MaxFocus}

\* The cell ids a piece covers from an origin, on an empty board (NONE: off the board).
Footprint(piece, originCellId) == canPlacePiece(createEmptyBoard, piece.shape, originCellId)

\* the cells of the patterns of `some`
CellsOfPatterns(some) == UNION {Range(pattern.cellIds) : pattern \in some}

\* the patterns through a cell of F
Touching(F) == {pattern \in Range(patterns) : Range(pattern.cellIds) \cap F # {}}

\* a cell on the rim, filled or not: the last cell of the board
ExtraCell ==
    LET Last(allCells) == allCells[Len(allCells)]
    IN  Last(cells).id

\* The filled cells around one intended move (a piece of `pieces` at a cell of
\* `foci`): at most `most` of the patterns through the piece's cells are filled
\* up to them.
Fills(pieces, foci, most) ==
    LET Fill(piece, F, near) == [piece |-> piece, filled |-> near \ F, near |-> near]
        Of(piece, F, through) ==
            {Fill(piece, F, CellsOfPatterns(some)) :
                some \in {T \in SUBSET through : Cardinality(T) <= most}}
        Under(piece, footprint) ==
            IF footprint = NONE THEN {}
            ELSE Of(piece, Range(footprint.targetCellIds),
                    Touching(Range(footprint.targetCellIds)))
    IN  UNION {Under(p, Footprint(p, o)) : p \in pieces, o \in foci}

\* Positions for the scoring of a move: the first catalog shape, up to
\* MaxPrefilled patterns through its cell.
ScoringFills == Fills(SingleCellPieces, FocusIds, MaxPrefilled)

\* Positions for the geometry of a move: every family piece, at most one pattern.
GeometryFills == Fills(FamilyPieces, FocusIds, 1)

NoFullPattern(board) == Len(findClears(board).clearedPatterns) = 0

\* the first cell of the board, in the order of its cells, that is in ids
FirstOf(ids) ==
    LET In(order) ==
            order[CHOOSE i \in 1..Len(order) :
                     order[i].id \in ids /\ \A j \in 1..(i - 1) : order[j].id \notin ids].id
    IN  IF ids = {} THEN NULL ELSE In(cells)

\* An endless game with the cells `filled` filled and streak s: the golden cell
\* is a filled cell, the first one; the piece is the last of its hand.
EndlessGame(piece, filled, s) ==
    [ mode |-> "endless", board |-> BoardOf(filled),
      score |-> Cardinality(filled) + 11 * s, streak |-> s,
      hand |-> <<piece>>, handSlots |-> <<NULL, NULL, piece.id>>,
      gameOver |-> FALSE, moves |-> Cardinality(filled) + s,
      dailyHits |-> <<>>, dailyTotalHits |-> 0, dailyRemainingHits |-> 0,
      dailyCompleted |-> FALSE,
      goldenCellId |-> FirstOf(filled) ]

\* A daily game with streak s: the numbered cells are petal `pos` of the outer
\* flowers; those among `near` have h hits left, the others `rest`.
DailyGame(piece, filled, near, s, pos, h, rest) ==
    LET \* the hits `hits` left on the numbered cells, `left` in all
        Game(hits, left) ==
            [ mode |-> "daily",
              board |-> BoardOf(filled \cup {id \in DOMAIN hits : hits[id] > 0}),
              score |-> 0, streak |-> s,
              hand |-> <<piece>>, handSlots |-> <<NULL, NULL, piece.id>>,
              gameOver |-> FALSE, moves |-> Cardinality(filled) + s + 1,
              dailyHits |-> hits,
              dailyTotalHits |-> MaxInitialHits * Cardinality(DOMAIN hits),
              dailyRemainingHits |-> left,
              dailyCompleted |-> FALSE,
              goldenCellId |-> NULL ]
        On(numbered) ==
            Game([id \in numbered |-> IF id \in near THEN h ELSE rest],
                 h * Cardinality(numbered \cap near) + rest * Cardinality(numbered \ near))
    IN  On(NumberedCells(pos))

Rims == {{}, {ExtraCell}}

EndlessStates(scoring, geometry) ==
    {EndlessGame(ff.piece, ff.filled \cup X, s) :
        ff \in scoring, X \in Rims, s \in 0..MaxStreak}
    \cup {EndlessGame(ff.piece, ff.filled \cup X, 0) : ff \in geometry, X \in Rims}

DailyStates(scoring, geometry) ==
    {DailyGame(ff.piece, ff.filled, ff.near, s, pos, h, rest) :
        ff \in scoring, s \in {0, MaxStreak}, pos \in 1..MaxLayout,
        h \in 0..MaxHits, rest \in {0, MaxHits}}
    \cup {DailyGame(ff.piece, ff.filled, ff.near, 0, pos, MaxHits, MaxHits) :
            ff \in geometry, pos \in 1..MaxLayout}

\* A game in play: no scoring pattern is full, an endless game has its golden
\* cell, a daily game has hits left.
InPlay(g) ==
    /\ NoFullPattern(g.board)
    /\ (g.mode = "endless" => g.goldenCellId # NULL)
    /\ (g.mode = "daily" => g.dailyRemainingHits > 0)

GamesAround(scoring, geometry) ==
    {g \in EndlessStates(scoring, geometry) \cup DailyStates(scoring, geometry) : InPlay(g)}

SavedGames == GamesAround(ScoringFills, GeometryFills)

\* Positions with little room: of every three cells in a row one is empty, the
\* rim cell among them, so that no two empty cells touch and no pattern is
\* full.  A piece of one cell is in hand, alone or with a piece of two cells.
RoomyCells ==
    LET Colour(coord) == (coord.q - coord.r) % 3
    IN  {c.id : c \in {c \in Range(cells) : Colour(c.coord) = Colour(CoordOf(ExtraCell))}}

CrampedHand ==
    << [id |-> "piece-1", shape |-> ALL_PIECE_SHAPES[1]],
       [id |-> "piece-2", shape |-> ALL_PIECE_SHAPES[2]] >>

CrampedGames ==
    LET TwoInHand(g) == [g EXCEPT !.hand = CrampedHand,
                                  !.handSlots = <<NULL, "piece-1", "piece-2">>]
        piece == CrampedHand[1]
    IN  {g \in {EndlessGame(piece, cellSet \ RoomyCells, 0),
                TwoInHand(EndlessGame(piece, cellSet \ RoomyCells, 0))}
               \cup {TwoInHand(DailyGame(piece, cellSet \ RoomyCells, {}, 0, pos, MaxHits, MaxHits)) :
                        pos \in 1..MaxLayout} : InPlay(g)}

\* Cells a placement is requested at: the focus cells, two rim cells (targets
\* fall off the board) and an id that is no cell of the board.
UnknownCellId == "9,9"

\* a second cell on the rim: the last cell but one
SecondCell ==
    LET LastButOne(allCells) == allCells[Len(allCells) - 1]
    IN  LastButOne(cells).id

CallOrigins == FocusIds \cup {ExtraCell, SecondCell, UnknownCellId}

\* Piece ids a placement is requested with: the pieces in hand and one that is not.
UnknownPieceId == "piece-none"

(***************************************************************************)
(* App.tsx, placePieceAtCell: the updater handed to setGame, and the undo  *)
(* history it sets.  `shuffled` and `dealt` are the outcomes of the random *)
(* draws of the golden-cell respawn and of the deal of a new hand.         *)
(* Returns the next game, the next undo history and the call of            *)
(* applyPlacement it made (NONE: it made none).                            *)
(***************************************************************************)
\* Variant of NewStreak that counts every placement, clearing or not.
NewStreakCounting(current, result) == current.streak + 1

\* let newStreak: the streak the snapshot gets
NewStreak(current, result) ==
    IF Len(result.clearedPatterns) > 0 THEN current.streak + 1 ELSE 0

\* Variant of FinalScore that scores the points gained only.
FinalScorePointsOnly(current, piece, result) == current.score + result.pointsGained

\* let finalScore: the score the snapshot gets
FinalScore(current, piece, result) ==
    IF current.mode = "endless"
    THEN current.score + result.pointsGained + Len(piece.shape.cells)
    ELSE current.score

\* Variant of NewMoves that counts the cells placed.
NewMovesByCells(current, piece) == current.moves + Len(piece.shape.cells)

\* const newMoves = current.moves + 1
NewMoves(current, piece) == current.moves + 1

\* Variant of GameOver that ends a game only when no move is left.
GameOverWhenStuck(current, result, noMovesLeft) == noMovesLeft

\* let gameOver: a daily puzzle ends when it is completed or no move is left,
\* an endless game when no move is left
GameOver(current, result, noMovesLeft) ==
    IF current.mode = "daily" THEN result.dailyCompleted \/ noMovesLeft
    ELSE noMovesLeft

\* The snapshot the updater returns and the undo history, for a placement that
\* applied: `after` names the caller's object, as the call of applyPlacement
\* left it.
Commit(after, stack, piece, result, made, newHand) ==
    LET \* the GameState the updater returns
        NextState(noMovesLeft) ==
            [after EXCEPT
                !.board = result.board,
                !.score = FinalScore(after, piece, result),
                !.streak = NewStreak(after, result),
                !.hand = newHand.hand,
                !.handSlots = newHand.handSlots,
                !.gameOver = GameOver(after, result, noMovesLeft),
                !.moves = NewMoves(after, piece),
                !.dailyHits = result.dailyHits,
                !.dailyTotalHits = result.dailyTotalHits,
                !.dailyRemainingHits = result.dailyRemainingHits,
                !.dailyCompleted = result.dailyCompleted,
                !.goldenCellId = result.goldenCellId]
        \* the undo history keeps at most two snapshots before the one pushed
        capped == IF Len(stack) >= 2 THEN Tail(stack) ELSE stack
    IN  [ game |-> NextState(~hasAnyValidMove(result.board, newHand.hand)),
          undoStack |-> IF ~newHand.isThirdPieceThisHand THEN Append(capped, after)
                        ELSE <<>>,
          call |-> made ]

\* Variant of UpdatedSlots that leaves the slots as they were.
UpdatedSlotsKept(handSlots, piece) == handSlots

\* current.handSlots.map((id) => (id === piece.id ? null : id))
UpdatedSlots(handSlots, piece) ==
    [i \in 1..Len(handSlots) |-> IF handSlots[i] = piece.id THEN NULL ELSE handSlots[i]]

\* if (!result) return current; otherwise the hand after the piece left it
Update(after, stack, piece, result, made, dealt) ==
    LET IsOther(p) == p.id # piece.id
        remainingHand == SelectSeq(after.hand, IsOther)
        updatedSlots == UpdatedSlots(after.handSlots, piece)
        \* the third piece of a hand brings the hand dealt, with its slots;
        \* otherwise the piece's slot is emptied
        newHand ==
            IF Len(remainingHand) = 0
            THEN [ isThirdPieceThisHand |-> TRUE, hand |-> dealt,
                   handSlots |-> [i \in 1..3 |->
                                     IF i <= Len(dealt) THEN dealt[i].id ELSE NULL] ]
            ELSE [ isThirdPieceThisHand |-> FALSE, hand |-> remainingHand,
                   handSlots |-> updatedSlots ]
    IN  IF result = THROWN \/ result = NONE
        THEN [game |-> after, undoStack |-> stack, call |-> made]
        ELSE Commit(after, stack, piece, result, made, newHand)

\* const result = applyPlacement(current, piece, cellId): `out` is what the call
\* returned and left of the caller's object
Applied(current, stack, piece, cellId, dealt, out) ==
    Update(out.current, stack, piece, out.result,
           [current |-> current, piece |-> piece, originCellId |-> cellId, out |-> out],
           dealt)

\* const piece = current.hand.find((p) => p.id === pieceId); if (!piece) return current
PlaceFound(current, stack, piece, cellId, shuffled, dealt) ==
    IF piece = NONE THEN [game |-> current, undoStack |-> stack, call |-> NONE]
    ELSE Applied(current, stack, piece, cellId, dealt,
                 applyPlacement(current, piece, cellId, shuffled))

\* Variant of placePieceAtCell that places on a game that is over.
placePieceAtCellWhenOver(current, stack, pieceId, cellId, shuffled, dealt) ==
    LET IsPiece(p) == p.id = pieceId
    IN  PlaceFound(current, stack, FirstOrNone(SelectSeq(current.hand, IsPiece)),
                   cellId, shuffled, dealt)

placePieceAtCell(current, stack, pieceId, cellId, shuffled, dealt) ==
    LET IsPiece(p) == p.id = pieceId
    IN  IF current.gameOver THEN [game |-> current, undoStack |-> stack, call |-> NONE]
        ELSE PlaceFound(current, stack, FirstOrNone(SelectSeq(current.hand, IsPiece)),
                        cellId, shuffled, dealt)

(***************************************************************************)
(* The specification.  A session starts from a fresh or a saved game and   *)
(* the player requests one placement, and further ones once the game is    *)
(* over; `call` keeps the call of applyPlacement the last request made     *)
(* (NONE: it made none).  To compare the placements of two                 *)
(* games, the session ends, `prev` keeping what its placement gave, and a  *)
(* session on a second game with the same incoming streak follows.         *)
(***************************************************************************)
Summary(made) ==
    [ streak |-> made.current.streak,
      numClears |-> Len(made.out.result.clearedPatterns),
      pointsGained |-> made.out.result.pointsGained,
      boardClearedBonus |-> made.out.locals.boardClearedBonus,
      goldenBonus |-> made.out.locals.goldenBonus ]

Succeeded(made) == made # NONE /\ made.out.result \notin {NONE, THROWN}

\* The second game of a comparison: an endless game with the streak asked for,
\* the positions being those for the scoring of a move at the first focus.
SecondGames(streak) ==
    {g \in {EndlessGame(ff.piece, ff.filled \cup X, streak) :
               ff \in Fills(SingleCellPieces, {axialToId(flowerCenters[2])}, MaxPrefilled),
               X \in Rims} : InPlay(g)}

\* savedEndlessGame and savedDailyGame when the App starts: null
NoneSaved == [endless |-> NONE, daily |-> NONE]

\* The fresh game a restart, a retry or a toggle gets from
\* createInitialGameState() or createDailyGameState(), for one outcome of their
\* draws: the cells unshuffled, the first petals numbered, a hand of the first
\* catalog shape.
FreshOf(mode) ==
    LET hand == CHOOSE dealt \in Deals : dealt[1].shape = ALL_PIECE_SHAPES[1]
    IN  IF mode = "daily" THEN {createDailyGameState(1, MaxInitialHits, hand)}
        ELSE {createInitialGameState(Shuffled(0), hand)}

\* handleUndo: the latest snapshot comes back, with the move counter of the
\* current game when that is a daily game
handleUndo(current, stack) ==
    IF Len(stack) = 0 THEN [game |-> current, undoStack |-> stack]
    ELSE [ game |-> [stack[Len(stack)] EXCEPT
                        !.moves = IF current.mode = "daily" THEN current.moves ELSE @],
           undoStack |-> SubSeq(stack, 1, Len(stack) - 1) ]

\* resetGame: `next` is the game createDailyGameState() or
\* createInitialGameState() returned
resetGame(current, stack, kept, next) ==
    [ game |-> next, undoStack |-> <<>>,
      saved |-> IF current.mode = "daily" THEN [kept EXCEPT !.daily = next]
                ELSE [kept EXCEPT !.endless = next] ]

\* toggleDailyMode: the game of the other mode that was put aside, or `fresh`,
\* the game createInitialGameState() or createDailyGameState() returned; the
\* undo history is not touched
toggleDailyMode(current, stack, kept, fresh) ==
    IF current.mode = "daily"
    THEN IF kept.endless # NONE
         THEN [ game |-> kept.endless, undoStack |-> stack,
                saved |-> [kept EXCEPT !.daily = current] ]
         ELSE [ game |-> fresh, undoStack |-> stack,
                saved |-> [endless |-> fresh, daily |-> current] ]
    ELSE IF kept.daily # NONE
         THEN [ game |-> kept.daily, undoStack |-> stack,
                saved |-> [kept EXCEPT !.endless = current] ]
         ELSE [ game |-> fresh, undoStack |-> stack,
                saved |-> [endless |-> current, daily |-> fresh] ]

\* "Retry today's puzzle", the button of the daily game-over panel
retryDaily(current, stack, kept, next) ==
    [ game |-> next, undoStack |-> stack, saved |-> [kept EXCEPT !.daily = next] ]

MaxRequests == 3    \* a session from the fresh game of a mode is followed for MaxRequests requests

Init ==
    /\ game \in FreshGames \cup SavedGames \cup CrampedGames
    /\ undoStack = <<>>
    /\ call = NONE
    /\ prev = NONE
    /\ saved = NoneSaved
    /\ budget = IF game \in FreshOf("endless") \cup FreshOf("daily") THEN MaxRequests ELSE 1
    /\ last = "start"
    /\ probe = NONE

\* The outcomes of the random draws that a placement on `current` can read: the
\* shuffle is drawn for the respawn of the golden cell, in endless mode only,
\* and a hand is dealt only after the last piece of a hand.  Where two empty
\* cells of the board touch, the hand of the first catalog shape stands for
\* the hands dealt; where none do, whether a hand fits depends on its shapes
\* and every hand of Deals is an outcome.
ShufflesFor(current) == IF current.mode = "endless" THEN Shuffles ELSE {Shuffled(0)}

DealsFor(current) ==
    LET Beside(id) == {getNeighbor(id, directions[d]) : d \in 1..Len(directions)}
        empty == {id \in cellSet : current.board[id] = EMPTY}
    IN  IF Len(current.hand) = 1 /\ \A id \in empty : Beside(id) \cap empty = {}
        THEN Deals
        ELSE {CHOOSE dealt \in Deals : dealt[1].shape = ALL_PIECE_SHAPES[1]}

\* a request of the player is counted
Request(handler) ==
    /\ budget' = IF budget > 0 THEN budget - 1 ELSE 0
    /\ last' = handler

PlacePiece ==
    /\ game # NONE
    /\ budget > 0 \/ game.gameOver
    /\ \E pieceId \in {game.hand[i].id : i \in 1..Len(game.hand)} \cup {UnknownPieceId},
          cellId \in CallOrigins, shuffled \in ShufflesFor(game), dealt \in DealsFor(game) :
          \E next \in {placePieceAtCell(game, undoStack, pieceId, cellId, shuffled, dealt)} :
              /\ game' = next.game
              /\ undoStack' = next.undoStack
              /\ call' = next.call
    /\ Request("placePieceAtCell")
    /\ UNCHANGED <<prev, saved, probe>>

Undo ==
    /\ game # NONE
    /\ budget > 0
    /\ \E next \in {handleUndo(game, undoStack)} :
          /\ game' = next.game
          /\ undoStack' = next.undoStack
    /\ call' = NONE
    /\ Request("handleUndo")
    /\ UNCHANGED <<prev, saved, probe>>

Restart ==
    /\ game # NONE
    /\ budget > 0
    /\ \E fresh \in FreshOf(game.mode) :
          \E next \in {resetGame(game, undoStack, saved, fresh)} :
              /\ game' = next.game
              /\ undoStack' = next.undoStack
              /\ saved' = next.saved
    /\ call' = NONE
    /\ Request("resetGame")
    /\ UNCHANGED <<prev, probe>>

Toggle ==
    /\ game # NONE
    /\ budget > 0
    /\ \E fresh \in FreshOf(IF game.mode = "daily" THEN "endless" ELSE "daily") :
          \E next \in {toggleDailyMode(game, undoStack, saved, fresh)} :
              /\ game' = next.game
              /\ undoStack' = next.undoStack
              /\ saved' = next.saved
    /\ call' = NONE
    /\ Request("toggleDailyMode")
    /\ UNCHANGED <<prev, probe>>

\* the panel is shown when a daily game is over
Retry ==
    /\ game # NONE
    /\ game.gameOver /\ game.mode = "daily"
    /\ \E fresh \in FreshOf("daily") :
          \E next \in {retryDaily(game, undoStack, saved, fresh)} :
              /\ game' = next.game
              /\ undoStack' = next.undoStack
              /\ saved' = next.saved
    /\ call' = NONE
    /\ Request("retryDaily")
    /\ UNCHANGED <<prev, probe>>

EndSession ==
    /\ prev = NONE
    /\ Succeeded(call)
    /\ prev' = Summary(call)
    /\ game' = NONE
    /\ undoStack' = <<>>
    /\ call' = NONE
    /\ saved' = NoneSaved
    /\ budget' = 0
    /\ last' = "start"
    /\ UNCHANGED probe

StartSession ==
    /\ game = NONE
    /\ game' \in SecondGames(prev.streak)
    /\ budget' = 1
    /\ UNCHANGED <<undoStack, call, prev, saved, last, probe>>

Next == PlacePiece \/ Undo \/ Restart \/ Toggle \/ Retry \/ EndSession \/ StartSession

Spec == Init /\ [][Next]_vars

(***************************************************************************)
(* The functions of gameLogic.ts called on their own.  No game is held:    *)
(* probe records one call, from its arguments to what it returned.         *)
(***************************************************************************)
\* The board on which every cell but the centres of the seven flowers is filled:
\* every 7-cell line runs through one centre, so no scoring pattern is full.
CentresOpen == BoardOf(cellSet \ {axialToId(flowerCenters[f]) : f \in 1..Len(flowerCenters)})

\* Boards with no full scoring pattern: the empty board, the first cell of a
\* flower alone, a scoring pattern through the first cell of a flower filled
\* up to that cell, and the board with the centres open.
CallBoards ==
    LET Firsts == {Shuffled(k)[1].id : k \in 0..MaxShuffle}
        Near(c) == {Range(pattern.cellIds) \ {c} :
                      pattern \in {p \in Range(patterns) :
                                     p.id \in scoringPatternIds /\ c \in Range(p.cellIds)}}
    IN  {BoardOf(F) : F \in {{}} \cup {{c} : c \in Firsts} \cup UNION {Near(c) : c \in Firsts}}
        \cup {CentresOpen}

\* spawnGoldenCell(board, forbiddenFlowers).  The sets of forbidden flowers are
\* none (undefined, as createInitialGameState passes), the flower of a cell (as
\* applyPlacement passes), and all of them, which leaves the loops no cell.
SpawnCall ==
    /\ probe = NONE
    /\ \E board \in CallBoards, shuffled \in Shuffles,
          forbiddenFlowers \in {{}} \cup {{flower.id} : flower \in Range(FLOWER_PATTERNS)}
                                    \cup {{flower.id : flower \in Range(FLOWER_PATTERNS)}} :
          probe' = [ fn |-> "spawnGoldenCell", board |-> board,
                     forbiddenFlowers |-> forbiddenFlowers, shuffled |-> shuffled,
                     out |-> spawnGoldenCell(board, forbiddenFlowers, shuffled) ]
    /\ UNCHANGED <<game, undoStack, call, prev, saved, budget, last>>

\* hasAnyValidMove(board, hand): what it returned and the caller's board and
\* hand (which fakeGame holds) as the call left them.  The hands have up to
\* MaxHand pieces, of the first MaxShapes + 1 shapes of the catalog (1, 2 and 3
\* cells), unrotated.
MoveCall ==
    /\ probe = NONE
    /\ \E board \in CallBoards,
          ks \in UNION {[1..n -> 1..(MaxShapes + 1)] : n \in 0..MaxHand} :
          \E hand \in {[i \in 1..Len(ks) |-> [ id |-> "piece-" \o ToString(i - 1),
                                                shape |-> ALL_PIECE_SHAPES[ks[i]] ]]} :
              probe' = [ fn |-> "hasAnyValidMove", board |-> board, hand |-> hand,
                         out |-> AnyMove(board, hand) ]
    /\ UNCHANGED <<game, undoStack, call, prev, saved, budget, last>>

\* The calendar days of the calls: the first MaxDay days of January and of
\* November 2026.
Dates == {[y |-> 2026, m |-> m, d |-> d] : m \in {1, 11}, d \in 1..MaxDay}

\* The streams a call is given: Math.random with outcomes among 0, 3/16 and 8/16
\* (as shape: 1 cell, 3 cells, 4 cells; as rotation: 0, 1, 3), and the generator
\* seeded for a day.
Streams ==
    LET Outcomes == {DblOfFraction(k, 16) : k \in {0, 3, 8}}
        MathRandom(values) == [kind |-> "Math.random", state |-> <<>>, values |-> values, at |-> 1]
    IN  {MathRandom(values) : values \in UNION {[1..n -> Outcomes] : n \in 1..MaxCycle}}
        \cup {makeSeededRandom(getTodaySeed(today)) : today \in Dates}

\* Math.random while createDailyGameState runs: the same outcome on every draw
AmbientStreams == {random \in Streams : random.kind = "Math.random" /\ Len(random.values) = 1}

\* what Date.now() gives
Clock == {"1793909776000", "1793909776001"}

\* dealHand(random)
DealCall ==
    /\ probe = NONE
    /\ \E random \in Streams, now \in Clock :
          probe' = [ fn |-> "dealHand", random |-> random, now |-> now,
                     out |-> dealHand(random, now) ]
    /\ UNCHANGED <<game, undoStack, call, prev, saved, budget, last>>

\* dealPlayableHand(board, maxAttempts, random), on the empty board and on the
\* board with the centres open: the call up to its loop
PlayableCall ==
    /\ probe = NONE
    /\ \E board \in {createEmptyBoard, CentresOpen},
          maxAttempts \in 0..MaxAttempts \cup {DefaultAttempts},
          random \in Streams, now \in Clock :
          probe' = DealStart(board, maxAttempts, random, now)
    /\ UNCHANGED <<game, undoStack, call, prev, saved, budget, last>>

\* one turn of its loop, or its return
PlayableStep ==
    /\ probe # NONE
    /\ probe.fn = "dealPlayableHand"
    /\ probe.pc = "loop"
    /\ probe' = DealStep(probe)
    /\ UNCHANGED <<game, undoStack, call, prev, saved, budget, last>>

\* createDailyGameState() twice on one calendar day, at two times and with two
\* streams of Math.random
DailyCall ==
    /\ probe = NONE
    /\ \E today \in Dates, now \in Clock, later \in Clock,
          ambient \in AmbientStreams, other \in AmbientStreams :
          \E at \in {[c \in {<<now, ambient>>, <<later, other>>} |->
                         createDailyGameStateOn(today, c[1], c[2])]} :
             probe' = [ fn |-> "createDailyGameState", today |-> today,
                        first |-> at[<<now, ambient>>],
                        second |-> at[<<later, other>>] ]
    /\ UNCHANGED <<game, undoStack, call, prev, saved, budget, last>>

\* A later calendar day, 9 May 4777.
FarDay == [y |-> 4777, m |-> 5, d |-> 9]

\* The outputs of a generator are used as indices into arrays of these lengths:
\* the value range (3), the rotations (6), a flower's cells (7), the catalog (12).
IndexRanges == {3, 6, 7, Len(ALL_PIECE_SHAPES)}

\* const random = makeSeededRandom(seed), the seed being that of a day
RandomCall ==
    /\ probe = NONE
    /\ \E today \in Dates \cup {FarDay} :
          probe' = [ fn |-> "random", today |-> today, position |-> 0,
                     before |-> makeSeededRandom(getTodaySeed(today)),
                     random |-> makeSeededRandom(getTodaySeed(today)),
                     value |-> DblZero, index |-> [n \in IndexRanges |-> 0] ]
    /\ UNCHANGED <<game, undoStack, call, prev, saved, budget, last>>

\* the generator after the call random() that gave `drawn`
Stepped(p, drawn) ==
    [p EXCEPT !.position = @ + 1, !.before = p.random, !.random = drawn.random,
              !.value = drawn.value,
              !.index = [n \in IndexRanges |-> RandomIndex(drawn.value, n)]]

\* random(), and Math.floor(random() * n)
RandomStep ==
    /\ probe # NONE
    /\ probe.fn = "random"
    /\ probe.position < MaxDraws
    /\ probe' = Stepped(probe, Draw(probe.random))
    /\ UNCHANGED <<game, undoStack, call, prev, saved, budget, last>>

\* The module constants as they are once the modules are loaded:
\* BOARD_DEFINITION = buildBoard() and ALL_PIECE_SHAPES = generateShapes()
LoadCall ==
    /\ probe = NONE
    /\ probe' = [ fn |-> "load", centers |-> flowerCenters,
                  board |-> BOARD_DEFINITION, shapes |-> ALL_PIECE_SHAPES ]
    /\ UNCHANGED <<game, undoStack, call, prev, saved, budget, last>>

\* dealDailyHand(board, dailySeed, handDealCount) twice with the same arguments,
\* at two times: on the empty board and on the board with the centres open,
\* with the seed of a day
DailyHandCall ==
    /\ probe = NONE
    /\ \E board \in {createEmptyBoard, CentresOpen}, today \in Dates,
          handDealCount \in 0..MaxDealCount :
          \E dailySeed \in {getTodaySeed(today)} :
             \E at \in {[t \in Clock |-> dealDailyHand(board, dailySeed, handDealCount, t)]} :
                \E now \in Clock, later \in Clock :
                   probe' = [ fn |-> "dealDailyHand", board |-> board,
                              dailySeed |-> dailySeed, handDealCount |-> handDealCount,
                              now |-> now, later |-> later,
                              first |-> at[now], second |-> at[later] ]
    /\ UNCHANGED <<game, undoStack, call, prev, saved, budget, last>>

CallsInit ==
    /\ game = NONE
    /\ undoStack = <<>>
    /\ call = NONE
    /\ prev = NONE
    /\ saved = NoneSaved
    /\ budget = 0
    /\ last = "start"
    /\ probe = NONE

CallsNext ==
    LoadCall \/ RandomCall \/ RandomStep
    \/ SpawnCall \/ MoveCall \/ DealCall \/ PlayableCall \/ PlayableStep \/ DailyCall
    \/ DailyHandCall

\* A call that is in its loop goes on: nothing holds a running function back.
Calls == CallsInit /\ [][CallsNext]_vars /\ WF_vars(PlayableStep)

(***************************************************************************)
(* Properties.  The words used below are defined from the board and the    *)
(* arguments of the call, not from the operators that compute the result.  *)
(***************************************************************************)
\* the cell a shape offset lands on from an origin that is a board cell
TargetOf(originCellId, offset) == axialToId(addAxial(CoordOf(originCellId), offset))

\* the preconditions of a placement are violated
Violates(board, shape, originCellId) ==
    \/ originCellId \notin cellSet
    \/ \E i \in 1..Len(shape.cells) :
          LET t == TargetOf(originCellId, shape.cells[i])
          IN  t \notin cellSet \/ board[t] # EMPTY

\* the board of a call once the target cells are filled
BoardPlaced(made) ==
    [id \in cellSet |->
        IF \E i \in 1..Len(made.piece.shape.cells) :
              TargetOf(made.originCellId, made.piece.shape.cells[i]) = id
        THEN FILLED ELSE made.current.board[id]]

IsScoringShape(pattern) ==
    pattern.type = "flower" \/ (pattern.type = "line" /\ Len(pattern.cellIds) = 7)

IsFull(board, pattern) == \A id \in Range(pattern.cellIds) : board[id] = FILLED

\* the patterns a successful call has to clear
ExpectedClears(made) ==
    LET board == BoardPlaced(made)
    IN  {pattern \in Range(patterns) : IsScoringShape(pattern) /\ IsFull(board, pattern)}

ExpectedClearedCells(made) == UNION {Range(pattern.cellIds) : pattern \in ExpectedClears(made)}

\* the number of cleared patterns a cell belongs to
ClearsThrough(expected, id) ==
    Cardinality({pattern \in expected : id \in Range(pattern.cellIds)})

\* the board of a successful call after its clears: cleared cells are empty,
\* numbered cells with hits left are filled
BoardAfterClears(made) ==
    LET board == BoardPlaced(made)
        clearedCells == ExpectedClearedCells(made)
        dailyHits == made.out.result.dailyHits
    IN  [id \in cellSet |->
            IF id \in DOMAIN dailyHits /\ dailyHits[id] > 0 THEN FILLED
            ELSE IF id \in clearedCells THEN EMPTY
            ELSE board[id]]

SumOfHits(dailyHits) ==
    SumSeq([i \in 1..Len(cells) |->
               IF cells[i].id \in DOMAIN dailyHits THEN dailyHits[cells[i].id] ELSE 0])

\* C1: canPlacePiece and applyPlacement return null exactly when the origin is
\* no board cell, or a target cell is off the board, or a target cell is not
\* empty; otherwise they return a result; they never throw.
C1_NullExactlyOnViolation ==
    call # NONE =>
        LET canPlace == canPlacePiece(call.current.board, call.piece.shape, call.originCellId)
            violates == Violates(call.current.board, call.piece.shape, call.originCellId)
        IN  /\ canPlace # THROWN
            /\ call.out.result # THROWN
            /\ (canPlace = NONE) <=> violates
            /\ (call.out.result = NONE) <=> violates

\* a placement rejected although its origin is an empty board cell
C1_Witness ==
    /\ call # NONE
    /\ call.out.result = NONE
    /\ call.originCellId \in cellSet
    /\ call.current.board[call.originCellId] = EMPTY

\* C2: when canPlacePiece succeeds, the target list has one id per shape cell, in
\* the order of the shape's cells, each a board cell that is empty on the board given.
C2_TargetsInShapeOrder ==
    Succeeded(call) =>
        LET shape == call.piece.shape
            canPlace == canPlacePiece(call.current.board, shape, call.originCellId)
            targets == canPlace.targetCellIds
        IN  /\ Len(targets) = Len(shape.cells)
            /\ \A i \in 1..Len(targets) :
                  /\ targets[i] = TargetOf(call.originCellId, shape.cells[i])
                  /\ targets[i] \in cellSet
                  /\ call.current.board[targets[i]] = EMPTY
            /\ FilledCells(call.current.board) \cap Range(targets) = {}
            /\ call.out.result.placedCellIds = targets

\* a piece of more than one cell was placed
C2_Witness ==
    /\ Succeeded(call)
    /\ Len(call.piece.shape.cells) > 1
    /\ Len(call.out.result.placedCellIds) > 1

\* C3: applyPlacement leaves the GameState it is given as it was: board,
\* dailyHits, counters and goldenCellId, whether the call succeeds or not.
C3_InputUnchanged ==
    call # NONE => call.out.current = call.current

\* a call that cleared the golden cell and respawned it on its board
C3_Witness ==
    /\ Succeeded(call)
    /\ call.out.result.goldenCleared
    /\ call.out.result.goldenCellId # call.current.goldenCellId
    /\ call.out.result.board # call.current.board

\* C4: clear detection on the board a successful applyPlacement returns finds
\* nothing, and no game state holds a full flower or a full 7-cell line.
C4_ClearsResolvedInOnePass ==
    /\ Succeeded(call) =>
          /\ Len(findClears(call.out.result.board).clearedPatterns) = 0
          /\ \A pattern \in Range(patterns) :
                IsScoringShape(pattern) => ~IsFull(call.out.result.board, pattern)
    /\ game # NONE =>
          \A pattern \in Range(patterns) :
              IsScoringShape(pattern) => ~IsFull(game.board, pattern)

\* a placement that cleared two patterns or more and became the game's board
C4_Witness ==
    /\ game # NONE
    /\ Succeeded(call)
    /\ Len(call.out.result.clearedPatterns) >= 2
    /\ game.board = call.out.result.board

\* C5: a pattern is cleared iff it is a flower or a 7-cell line and all its cells
\* are filled once the targets are filled; a full shorter line does not clear;
\* clearedCellIds is the union of the cleared patterns' cells, each once; the
\* clear count is the number of cleared patterns.
C5_ClearedIffFullScoringPattern ==
    Succeeded(call) =>
        LET result == call.out.result
            expected == ExpectedClears(call)
            expectedCells == UNION {Range(pattern.cellIds) : pattern \in expected}
        IN  /\ Range(result.clearedPatterns) = expected
            /\ Len(result.clearedPatterns) = Cardinality(expected)
            /\ \A pattern \in Range(patterns) :
                  (pattern.type = "line" /\ Len(pattern.cellIds) < 7)
                      => pattern \notin Range(result.clearedPatterns)
            /\ Range(result.clearedCellIds) = expectedCells
            /\ Len(result.clearedCellIds) = Cardinality(expectedCells)
            /\ expected # {} => result.comboMultiplier = ComboMultiplier(Cardinality(expected))

\* two patterns that share a cell clear while a full shorter line stays
C5_Witness ==
    /\ Succeeded(call)
    /\ Len(call.out.result.clearedPatterns) = 2
    /\ Len(call.out.result.clearedCellIds) < 14
    /\ \E pattern \in Range(patterns) :
          /\ pattern.type = "line"
          /\ Len(pattern.cellIds) < 7
          /\ IsFull(BoardPlaced(call), pattern)

\* C6: for n >= 1 clears at streak s, pointsGained is the round-half-up of
\* basePoints * (n + 1) * (10 + s) / 20, basePoints being 10 n plus the
\* board-cleared bonus (25 or 0) plus the golden bonus (10 or 0, endless only).
C6_PointsInIntegers ==
    (Succeeded(call) /\ Len(call.out.result.clearedPatterns) >= 1) =>
        LET n == Len(call.out.result.clearedPatterns)
            s == call.current.streak
            locals == call.out.locals
            basePoints == 10 * n + locals.boardClearedBonus + locals.goldenBonus
        IN  /\ locals.boardClearedBonus \in {0, 25}
            /\ locals.goldenBonus \in {0, 10}
            /\ call.current.mode # "endless" => locals.goldenBonus = 0
            /\ locals.basePoints = basePoints
            /\ call.out.result.pointsGained = (basePoints * (n + 1) * (10 + s) + 10) \div 20

\* C7: at one incoming streak, of two successful placements the one that clears
\* more patterns never gains fewer points.
C7_MoreClearsNeverFewerPoints ==
    (prev # NONE /\ Succeeded(call) /\ prev.streak = call.current.streak) =>
        LET this == Summary(call)
        IN  /\ this.numClears > prev.numClears => this.pointsGained >= prev.pointsGained
            /\ prev.numClears > this.numClears => prev.pointsGained >= this.pointsGained

\* C7, with the condition under which it holds: at one incoming streak, of two
\* successful placements with the same board-cleared bonus and the same golden
\* bonus, the one that clears more patterns never gains fewer points.
C7_MoreClearsSameBonuses ==
    ( /\ prev # NONE /\ Succeeded(call) /\ prev.streak = call.current.streak
      /\ prev.boardClearedBonus = Summary(call).boardClearedBonus
      /\ prev.goldenBonus = Summary(call).goldenBonus ) =>
        LET this == Summary(call)
        IN  /\ this.numClears > prev.numClears => this.pointsGained >= prev.pointsGained
            /\ prev.numClears > this.numClears => prev.pointsGained >= this.pointsGained

\* two clearing placements at one streak with the same bonuses, the second clearing more
C7_Witness ==
    /\ prev # NONE
    /\ Succeeded(call)
    /\ prev.streak = call.current.streak
    /\ prev.boardClearedBonus = Summary(call).boardClearedBonus
    /\ prev.goldenBonus = Summary(call).goldenBonus
    /\ prev.numClears >= 1
    /\ Summary(call).numClears > prev.numClears
    /\ Summary(call).pointsGained > prev.pointsGained

\* C8: the 25 points of the board-cleared bonus are in basePoints exactly when the
\* board given had a filled cell and the board returned is fully empty; never
\* without a clear; at most once.
C8_BonusIffReturnedBoardEmpty ==
    Succeeded(call) =>
        LET locals == call.out.locals
            n == Len(call.out.result.clearedPatterns)
        IN  /\ locals.boardClearedBonus \in {0, 25}
            /\ locals.basePoints = 10 * n + locals.boardClearedBonus + locals.goldenBonus
            /\ n = 0 => locals.boardClearedBonus = 0
            /\ (locals.boardClearedBonus = 25) <=>
                  (FilledCells(call.current.board) # {} /\ FilledCells(call.out.result.board) = {})

\* C8, with the board it is decided on: the 25 points are in basePoints exactly
\* when the board given had a filled cell and the board is fully empty after the
\* clears, before the golden cell is respawned; never without a clear; at most once.
C8_BonusIffEmptyAfterClears ==
    Succeeded(call) =>
        LET locals == call.out.locals
            n == Len(call.out.result.clearedPatterns)
        IN  /\ locals.boardClearedBonus \in {0, 25}
            /\ locals.basePoints = 10 * n + locals.boardClearedBonus + locals.goldenBonus
            /\ n = 0 => locals.boardClearedBonus = 0
            /\ (locals.boardClearedBonus = 25) <=>
                  (FilledCells(call.current.board) # {} /\ FilledCells(BoardAfterClears(call)) = {})

\* the bonus is granted and the board returned holds the respawned golden cell
C8_Witness ==
    /\ Succeeded(call)
    /\ call.out.locals.boardClearedBonus = 25
    /\ call.out.result.goldenCleared
    /\ FilledCells(call.out.result.board) = {call.out.result.goldenCellId}

\* C9: in daily mode, a numbered cell with h > 0 hits left that lies in k >= 1 of
\* the patterns the placement clears ends with max(0, h - k) hits; every other
\* numbered cell keeps its count.
C9_HitsDropByClearedPatterns ==
    (Succeeded(call) /\ call.current.mode = "daily") =>
        /\ DOMAIN call.out.result.dailyHits = DOMAIN call.current.dailyHits
        /\ LET expected == ExpectedClears(call)
           IN  \A id \in DOMAIN call.current.dailyHits :
                  LET h == call.current.dailyHits[id]
                      k == ClearsThrough(expected, id)
                  IN  call.out.result.dailyHits[id] =
                          IF h > 0 /\ k >= 1 THEN (IF h > k THEN h - k ELSE 0) ELSE h

\* a numbered cell with two hits left lies in two cleared patterns
C9_Witness ==
    /\ Succeeded(call)
    /\ call.current.mode = "daily"
    /\ \E id \in DOMAIN call.current.dailyHits :
          /\ call.current.dailyHits[id] = 2
          /\ ClearsThrough(ExpectedClears(call), id) = 2
          /\ call.out.result.dailyHits[id] = 0

\* C10: in every daily state dailyRemainingHits is the sum of the dailyHits
\* values, lies in 0..dailyTotalHits, and dailyCompleted holds iff it is 0.
C10_RemainingIsSumOfHits ==
    (game # NONE /\ game.mode = "daily") =>
        /\ game.dailyRemainingHits = SumOfHits(game.dailyHits)
        /\ game.dailyRemainingHits \in 0..game.dailyTotalHits
        /\ game.dailyCompleted <=> game.dailyRemainingHits = 0

\* a placement took the last hits and the daily game is completed
C10_Witness ==
    /\ game # NONE
    /\ Succeeded(call)
    /\ game.mode = "daily"
    /\ game.dailyHits = call.out.result.dailyHits
    /\ call.current.dailyRemainingHits > 0
    /\ game.dailyRemainingHits = 0
    /\ game.dailyCompleted

\* the flowers a cell lies in
FlowersOf(id) == {pattern \in Range(patterns) : pattern.type = "flower" /\ id \in Range(pattern.cellIds)}

\* C11: in every daily state a cell with a positive dailyHits count is filled; a
\* successful placement covers no such cell; and a numbered cell that a placement
\* turns from filled to empty has no hits left after that placement.
C11_NumberedFilledWhileHits ==
    /\ (game # NONE /\ game.mode = "daily") =>
           \A id \in DOMAIN game.dailyHits :
               game.dailyHits[id] > 0 => game.board[id] = FILLED
    /\ (Succeeded(call) /\ call.current.mode = "daily") =>
           /\ \A i \in 1..Len(call.out.result.placedCellIds) :
                  LET id == call.out.result.placedCellIds[i]
                  IN  ~(id \in DOMAIN call.current.dailyHits /\ call.current.dailyHits[id] > 0)
           /\ \A id \in DOMAIN call.current.dailyHits :
                  (call.current.board[id] = FILLED /\ call.out.result.board[id] = EMPTY)
                      => call.out.result.dailyHits[id] = 0

\* a numbered cell in a cleared pattern keeps a hit and stays filled, while
\* another cell of that pattern is emptied
C11_Witness ==
    /\ Succeeded(call)
    /\ call.current.mode = "daily"
    /\ \E id \in DOMAIN call.current.dailyHits :
          /\ id \in ExpectedClearedCells(call)
          /\ call.current.dailyHits[id] = 2
          /\ call.out.result.dailyHits[id] = 1
          /\ call.out.result.board[id] = FILLED
          /\ game.board[id] = FILLED
    /\ \E id \in ExpectedClearedCells(call) : call.out.result.board[id] = EMPTY

\* C12: a successful placement that completes no scoring pattern returns
\* pointsGained 0, both multipliers 1, no cleared cells or patterns,
\* goldenCleared false, the daily fields and the golden cell of the input state,
\* and the input board with exactly the target cells turned from empty to filled.
C12_NoClearResult ==
    (Succeeded(call) /\ ExpectedClears(call) = {}) =>
        LET result == call.out.result
            current == call.current
        IN  /\ result.pointsGained = 0
            /\ DblIsInt(result.comboMultiplier, 1)
            /\ DblIsInt(result.streakMultiplier, 1)
            /\ result.clearedCellIds = <<>>
            /\ result.clearedPatterns = <<>>
            /\ result.goldenCleared = FALSE
            /\ result.dailyHits = current.dailyHits
            /\ result.dailyTotalHits = current.dailyTotalHits
            /\ result.dailyRemainingHits = current.dailyRemainingHits
            /\ result.dailyCompleted = current.dailyCompleted
            /\ result.goldenCellId = current.goldenCellId
            /\ \A id \in cellSet :
                  IF \E i \in 1..Len(call.piece.shape.cells) :
                        TargetOf(call.originCellId, call.piece.shape.cells[i]) = id
                  THEN current.board[id] = EMPTY /\ result.board[id] = FILLED
                  ELSE result.board[id] = current.board[id]
            /\ DOMAIN result.board = cellSet

\* a placement in a game with a streak and filled cells clears nothing
C12_Witness ==
    /\ Succeeded(call)
    /\ ExpectedClears(call) = {}
    /\ call.current.streak > 0
    /\ FilledCells(call.current.board) # {}
    /\ Cardinality(FilledCells(call.out.result.board)) =
           Cardinality(FilledCells(call.current.board)) + Len(call.piece.shape.cells)

\* C13: in endless mode, when the golden cell is among the cells a placement
\* clears, goldenCleared is true, basePoints includes 10 for it, and the golden
\* cell returned is a filled cell outside the flower of the cleared golden cell;
\* when it is not among them the golden cell is unchanged and goldenCleared is
\* false; in daily mode goldenCleared is false.
C13_GoldenClearedAndRespawned ==
    Succeeded(call) =>
        LET result == call.out.result
            current == call.current
            cleared == ExpectedClearedCells(call)
        IN  /\ (current.mode = "endless" /\ current.goldenCellId \in cleared) =>
                  /\ result.goldenCleared
                  /\ call.out.locals.goldenBonus = 10
                  /\ call.out.locals.basePoints =
                         10 * Cardinality(ExpectedClears(call))
                             + call.out.locals.boardClearedBonus + 10
                  /\ result.goldenCellId \in cellSet
                  /\ FlowersOf(result.goldenCellId) \cap FlowersOf(current.goldenCellId) = {}
                  /\ result.board[result.goldenCellId] = FILLED
            /\ (current.mode = "endless" /\ current.goldenCellId \notin cleared) =>
                  /\ result.goldenCellId = current.goldenCellId
                  /\ ~result.goldenCleared
            /\ current.mode = "daily" => ~result.goldenCleared

\* the golden cell is cleared and the game goes on with another golden cell
C13_Witness ==
    /\ Succeeded(call)
    /\ call.current.mode = "endless"
    /\ call.current.goldenCellId \in ExpectedClearedCells(call)
    /\ call.out.result.goldenCleared
    /\ call.out.result.goldenCellId # call.current.goldenCellId
    /\ game.goldenCellId = call.out.result.goldenCellId
    /\ game.score = call.current.score + call.out.result.pointsGained
                        + Len(call.piece.shape.cells)

\* C14: spawnGoldenCell changes at most one cell of the board it works on.
\* When it returns a cell that was empty, that cell is filled and no flower or
\* 7-cell line is full on the board; when it returns a cell that was filled, or
\* null, the board is exactly as it was before the call (every tentative fill
\* was reverted).  After a non-null return the returned cell is filled.
C14_SpawnChangesAtMostOneCell ==
    (probe # NONE /\ probe.fn = "spawnGoldenCell") =>
        LET before == probe.board
            after == probe.out.board
            id == probe.out.id
        IN  /\ Cardinality({c \in cellSet : after[c] # before[c]}) <= 1
            /\ id # NULL => id \in cellSet /\ after[id] = FILLED
            /\ (id # NULL /\ before[id] = EMPTY) =>
                  /\ after = [before EXCEPT ![id] = FILLED]
                  /\ \A pattern \in Range(patterns) :
                        IsScoringShape(pattern) => ~IsFull(after, pattern)
            /\ (id = NULL \/ before[id] = FILLED) => after = before

\* A call that tried a cell, took the fill back and returned a later cell: a
\* cell before the returned one in the shuffled order was empty, outside the
\* forbidden flowers, and completes a scoring pattern when filled.
C14_Witness ==
    /\ probe # NONE /\ probe.fn = "spawnGoldenCell"
    /\ probe.out.id # NULL
    /\ \E i, j \in 1..Len(probe.shuffled) :
          /\ i < j
          /\ probe.shuffled[j].id = probe.out.id
          /\ probe.board[probe.shuffled[i].id] = EMPTY
          /\ FlowersOf(probe.shuffled[i].id) \cap
                 {flower \in Range(FLOWER_PATTERNS) : flower.id \in probe.forbiddenFlowers} = {}
          /\ \E pattern \in Range(patterns) :
                /\ IsScoringShape(pattern)
                /\ IsFull([probe.board EXCEPT ![probe.shuffled[i].id] = FILLED], pattern)


\* C15: hasAnyValidMove(board, hand) returns false exactly when no piece of the
\* hand has an origin cell on the board from which all its cells land on empty
\* board cells (so it is false for the empty hand), and the caller's board and
\* hand are after the call what they were before it.
C15_FalseIffNoLegalOrigin ==
    (probe # NONE /\ probe.fn = "hasAnyValidMove") =>
        /\ probe.out.found =
              (\E i \in 1..Len(probe.hand), origin \in cellSet :
                  ~Violates(probe.board, probe.hand[i].shape, origin))
        /\ probe.hand = <<>> => ~probe.out.found
        /\ probe.out.fakeGame.board = probe.board
        /\ probe.out.fakeGame.hand = probe.hand

\* A call that returned false for a hand with pieces on a board with empty
\* cells.
C15_Witness ==
    /\ probe # NONE /\ probe.fn = "hasAnyValidMove"
    /\ ~probe.out.found
    /\ probe.hand # <<>>
    /\ \E id \in cellSet : probe.board[id] = EMPTY


\* the words of the claims on dealHand, for a call that returned: the sizes of
\* the shapes accepted in the slots before slot i, and whether a 4-cell shape
\* in slot i pushes the total above 10
SizeBefore(out, i) == SumSeq([k \in 1..(i - 1) |-> out.hand[k].shape.size])
FourTooMany(out, i) == SizeBefore(out, i) + 4 > 10
AllFour(sizes) == \A j \in 1..Len(sizes) : sizes[j] = 4

\* dealHand returns 3 pieces, each a shape of the catalog turned by 0 to 5
\* sixths; a slot draws again only after a 4-cell shape that pushes the total
\* above 10, at most 20 times, and accepts what it drew last
DealtByTheRule(out) ==
    /\ Len(out.hand) = 3
    /\ \A i \in 1..3 :
          /\ \E k \in 1..Len(ALL_PIECE_SHAPES), rotation \in 0..5 :
                out.hand[i].shape =
                    [ALL_PIECE_SHAPES[k] EXCEPT !.cells =
                        [c \in 1..Len(@) |-> rotateAxial(@[c], rotation)]]
          /\ Len(out.drawn[i]) \in 1..21
          /\ out.hand[i].shape.size = out.drawn[i][Len(out.drawn[i])]
          /\ \A j \in 1..(Len(out.drawn[i]) - 1) :
                out.drawn[i][j] = 4 /\ FourTooMany(out, i)
          /\ Len(out.drawn[i]) < 21 =>
                ~(out.hand[i].shape.size = 4 /\ FourTooMany(out, i))

Playable(board, hand) ==
    \E i \in 1..Len(hand), origin \in cellSet : ~Violates(board, hand[i].shape, origin)

InDealPlayable == probe # NONE /\ probe.fn = "dealPlayableHand"

\* what a call of dealPlayableHand that returned has to have returned: the last
\* hand it dealt; and no hand dealt before that one had a valid move
ReturnedFirstPlayable ==
    (InDealPlayable /\ probe.pc = "returned") =>
        /\ probe.out = probe.dealt[Len(probe.dealt)]
        /\ \A k \in 1..(Len(probe.dealt) - 1) : ~Playable(probe.board, probe.dealt[k])
        /\ (\E k \in 1..Len(probe.checked) : probe.checked[k]) =>
              Playable(probe.board, probe.out)

C17_AtMostMaxAttemptsHands ==
    InDealPlayable =>
        /\ Len(probe.dealt) <= probe.maxAttempts
        /\ (probe.pc = "returned" /\ probe.attempt < probe.maxAttempts) =>
              /\ Len(probe.checked) = Len(probe.dealt)
              /\ probe.checked[Len(probe.checked)]

\* C17, amended: a call of dealPlayableHand deals at most maxAttempts + 1 hands
\* (31 with the default) and checks at most maxAttempts of them, and the hand
\* it returns has been checked for a valid move unless the bound was
\* exhausted.
C17_AtMostOneMoreHand ==
    InDealPlayable =>
        /\ Len(probe.dealt) <= probe.maxAttempts + 1
        /\ Len(probe.checked) <= probe.maxAttempts
        /\ (probe.pc = "returned" /\ probe.attempt < probe.maxAttempts) =>
              /\ Len(probe.checked) = Len(probe.dealt)
              /\ probe.checked[Len(probe.checked)]

\* A call with the default bound that found no valid move in 30 hands and
\* returned the hand dealt after them.
C17_Witness ==
    /\ InDealPlayable /\ probe.pc = "returned"
    /\ probe.maxAttempts = DefaultAttempts
    /\ Len(probe.dealt) = DefaultAttempts + 1
    /\ Len(probe.checked) = DefaultAttempts

\* the states the two calls of createDailyGameState returned
DailyCalls ==
    IF probe # NONE /\ probe.fn = "createDailyGameState"
    THEN {probe.first, probe.second} ELSE {}

\* a flower is the central one: its cells are 0,0 and the neighbours of 0,0
AroundOrigin(pattern) ==
    \A i \in 1..Len(pattern.cellIds) :
        LET c == CoordOf(pattern.cellIds[i])
        IN  c.q \in -1..1 /\ c.r \in -1..1 /\ (c.q + c.r) \in -1..1

DailyLayoutOf(g) ==
    /\ DOMAIN g.dailyHits \subseteq cellSet
    /\ Cardinality(DOMAIN g.dailyHits) = 6
    /\ \A f \in 1..Len(FLOWER_PATTERNS) :
          Cardinality(DOMAIN g.dailyHits \cap Range(FLOWER_PATTERNS[f].cellIds))
              = IF AroundOrigin(FLOWER_PATTERNS[f]) THEN 0 ELSE 1
    /\ \A id \in DOMAIN g.dailyHits : g.dailyHits[id] \in {2, 3, 4}
    /\ DOMAIN g.board = cellSet
    /\ \A id \in cellSet :
          g.board[id] = IF id \in DOMAIN g.dailyHits THEN FILLED ELSE EMPTY
    /\ g.dailyTotalHits = SumOfHits(g.dailyHits)
    /\ g.dailyRemainingHits = g.dailyTotalHits
    /\ g.dailyTotalHits \in 12..24
    /\ g.dailyCompleted = FALSE
    /\ g.gameOver = FALSE
    /\ g.goldenCellId = NULL

ShapesOf(hand) == [i \in 1..Len(hand) |-> hand[i].shape]

HalvesOf(state) ==
    [ lo |-> BigLimb(state, 1) + (BigLimb(state, 2) % 4) * 16384,
      hi |-> (BigLimb(state, 2) \div 4) + BigLimb(state, 3) * 4096 ]

\* (state x 1664525 + 1013904223) mod 2^32 on the halves, 1664525 being
\* 25 x 65536 + 26125 and 1013904223 being 15470 x 65536 + 62303
LcgStep(h) ==
    [ lo |-> (h.lo * 26125 + 62303) % 65536,
      hi |-> (h.hi * 26125 + h.lo * 25 + 15470 + ((h.lo * 26125 + 62303) \div 65536)) % 65536 ]

\* a number is in [0,1)
BelowOne(x) == BigIsZero(x.m) \/ BigBitLen(x.m) + x.e <= 0

\* C21 as stated: the seeded generator steps its state to (state x 1664525 +
\* 1013904223) mod 2^32, every output of it is in [0,1), and every index
\* floor(output x n) is in 0..n-1.
C21_OutputsBelowOne ==
    (probe # NONE /\ probe.fn = "random" /\ probe.position > 0) =>
        /\ HalvesOf(probe.random.state) = LcgStep(HalvesOf(probe.before.state))
        /\ BelowOne(probe.value)
        /\ \A n \in IndexRanges : probe.index[n] \in 0..(n - 1)

\* the constants are loaded
Loaded == probe # NONE /\ probe.fn = "load"

\* two axial coordinates are those of cells with a common edge
EdgeAdjacent(a, b) ==
    /\ a # b
    /\ (a.q - b.q) \in -1..1 /\ (a.r - b.r) \in -1..1
    /\ (a.q - b.q + a.r - b.r) \in -1..1

\* the coordinate the board gives the cell `id`
CoordIn(board, id) == (CHOOSE c \in Range(board.cells) : c.id = id).coord

PatternsOfType(board, type) ==
    {k \in 1..Len(board.patterns) : board.patterns[k].type = type}

BoardOfFlowers(board) ==
    /\ Len(board.cells) = 49
    /\ Cardinality({c.id : c \in Range(board.cells)}) = 49
    /\ Cardinality({c.coord : c \in Range(board.cells)}) = 49
    /\ Cardinality(PatternsOfType(board, "flower")) = 7
    /\ \A k \in PatternsOfType(board, "flower") :
          LET ids == board.patterns[k].cellIds
          IN  /\ Len(ids) = 7
              /\ Cardinality(Range(ids)) = 7
              /\ Range(ids) \subseteq {c.id : c \in Range(board.cells)}
              /\ \A j \in 2..7 : EdgeAdjacent(CoordIn(board, ids[1]), CoordIn(board, ids[j]))
    /\ \A k \in PatternsOfType(board, "flower"), l \in PatternsOfType(board, "flower") :
          k # l => Range(board.patterns[k].cellIds) \cap Range(board.patterns[l].cellIds) = {}
    /\ \A c \in Range(board.cells) :
          Cardinality({k \in PatternsOfType(board, "flower") :
                          c.id \in Range(board.patterns[k].cellIds)}) = 1
    /\ \A i \in 1..Len(board.scoringLineIds) :
          \E k \in PatternsOfType(board, "line") :
              /\ board.patterns[k].id = board.scoringLineIds[i]
              /\ Len(board.patterns[k].cellIds) = 7

\* C22: buildBoard gives 49 distinct cells and 7 flower patterns; every flower
\* has 7 cells, its centre first; no two flowers share a cell and every cell
\* belongs to exactly one flower; every line in scoringLineIds has 7 cells.
C22_BoardOfSevenFlowers == Loaded => BoardOfFlowers(probe.board)

\* The board is loaded, with its flowers, with lines, and with scoring lines.
C22_Witness ==
    /\ Loaded
    /\ PatternsOfType(probe.board, "flower") # {}
    /\ PatternsOfType(probe.board, "line") # {}
    /\ Len(probe.board.scoringLineIds) > 0

\* the three primary axes
Axes == {[q |-> 1, r |-> 0], [q |-> 1, r |-> -1], [q |-> 0, r |-> -1]}

OnBoard(board, q, r) == [q |-> q, r |-> r] \in {c.coord : c \in Range(board.cells)}

\* the id the board gives the cell at a coordinate
IdAt(board, q, r) == (CHOOSE c \in Range(board.cells) : c.coord = [q |-> q, r |-> r]).id

\* The maximal straight runs of at least 2 board cells along the axes, each as
\* the sequence of its cell ids from the end that has no board cell behind it.
MaximalRuns(board) ==
    LET Length(c, d) ==
            CHOOSE n \in 1..Len(board.cells) :
                /\ \A j \in 0..(n - 1) : OnBoard(board, c.q + j * d.q, c.r + j * d.r)
                /\ ~OnBoard(board, c.q + n * d.q, c.r + n * d.r)
        Run(c, d) ==
            [j \in 1..Length(c, d) |-> IdAt(board, c.q + (j - 1) * d.q, c.r + (j - 1) * d.r)]
        Starts == {<<cell.coord, d>> : cell \in Range(board.cells), d \in Axes}
    IN  { Run(sd[1], sd[2]) :
            sd \in {x \in Starts :
                      /\ ~OnBoard(board, x[1].q - x[2].q, x[1].r - x[2].r)
                      /\ OnBoard(board, x[1].q + x[2].q, x[1].r + x[2].r)} }

\* the axis of a line: the step from its first cell to its second
AxisOf(board, ids) ==
    [ q |-> CoordIn(board, ids[2]).q - CoordIn(board, ids[1]).q,
      r |-> CoordIn(board, ids[2]).r - CoordIn(board, ids[1]).r ]

LinesAreMaximalRuns(board) ==
    LET lines == PatternsOfType(board, "line")
        long == {k \in lines : Len(board.patterns[k].cellIds) = 7}
    IN  /\ {board.patterns[k].cellIds : k \in lines} = MaximalRuns(board)
        /\ Cardinality(lines) = Cardinality(MaximalRuns(board))
        /\ \A k \in lines : Len(board.patterns[k].cellIds) <= 7
        /\ Range(board.scoringLineIds) = {board.patterns[k].id : k \in long}
        /\ Len(board.scoringLineIds) = 15
        /\ Cardinality(long) = 15
        /\ \A d \in Axes :
              Cardinality({k \in long : AxisOf(board, board.patterns[k].cellIds) = d}) = 5

\* C23: the line patterns of buildBoard are exactly the maximal straight runs of
\* at least 2 board cells along the three primary axes, each once, ordered from
\* the cell with no board neighbour in the opposite direction; scoringLineIds
\* holds exactly those of length 7, no line is longer, and there are 15 scoring
\* lines, five per axis.
C23_LinesAreMaximalRuns == Loaded => LinesAreMaximalRuns(probe.board)

\* The board is loaded and has lines shorter than 7 beside the scoring lines.
C23_Witness ==
    /\ Loaded
    /\ \E k \in PatternsOfType(probe.board, "line") : Len(probe.board.patterns[k].cellIds) < 7
    /\ \E k \in PatternsOfType(probe.board, "line") : Len(probe.board.patterns[k].cellIds) = 7

\* the seven cells of the rosette around a centre: the centre and the cells
\* that have an edge in common with it
RosetteAt(center) ==
    {c \in {[q |-> center.q + dq, r |-> center.r + dr] : dq \in -1..1, dr \in -1..1} :
        c = center \/ EdgeAdjacent(c, center)}

\* the number of pairs of a cell of one rosette and a cell of the other that
\* have an edge in common
AdjacentPairs(a, b) ==
    Cardinality({pair \in RosetteAt(a) \X RosetteAt(b) : EdgeAdjacent(pair[1], pair[2])})

RosettesFit(centers) ==
    LET origin == [q |-> 0, r |-> 0]
        satellites == Range(centers) \ {origin}
    IN  /\ Len(centers) = 7
        /\ origin \in Range(centers)
        /\ Cardinality(satellites) = 6
        /\ \A s \in satellites :
              /\ Cardinality(RosetteAt(s)) = 7
              /\ \A other \in Range(centers) \ {s} : RosetteAt(s) \cap RosetteAt(other) = {}
              /\ AdjacentPairs(s, origin) = 3
              /\ Cardinality({t \in satellites \ {s} : AdjacentPairs(s, t) = 3}) = 2
              /\ \A t \in satellites \ {s} : AdjacentPairs(s, t) \in {0, 3}

\* C24: each of the six satellite rosettes of flowerCenters shares no cell with
\* any other rosette, has exactly 3 edge-adjacent cell pairs with the central
\* rosette, and has exactly 3 edge-adjacent cell pairs with each of exactly two
\* other satellites.
C24_RosettesFit == Loaded => RosettesFit(probe.centers)

\* The centres are loaded: the origin and satellites that touch one another.
C24_Witness ==
    /\ Loaded
    /\ \E s \in Range(probe.centers), t \in Range(probe.centers) :
          s # t /\ s # [q |-> 0, r |-> 0] /\ t # [q |-> 0, r |-> 0]
          /\ AdjacentPairs(s, t) > 0

\* a set of cells moved so that its first cell, by q and then r, is 0,0
Anchored(S) ==
    LET first == CHOOSE c \in S : \A d \in S : c.q < d.q \/ (c.q = d.q /\ c.r <= d.r)
    IN  {[q |-> c.q - first.q, r |-> c.r - first.r] : c \in S}

\* a sixth of a turn about 0,0, k times, and the mirror image in the line q = r
Turned(S, k) ==
    IF k = 0 THEN S
    ELSE IF k = 1 THEN {[q |-> -c.r, r |-> c.q + c.r] : c \in S}
    ELSE IF k = 2 THEN {[q |-> -c.q - c.r, r |-> c.q] : c \in S}
    ELSE IF k = 3 THEN {[q |-> -c.q, r |-> -c.r] : c \in S}
    ELSE IF k = 4 THEN {[q |-> c.r, r |-> -c.q - c.r] : c \in S}
    ELSE {[q |-> c.q + c.r, r |-> -c.q] : c \in S}

Mirrored(S) == {[q |-> c.r, r |-> c.q] : c \in S}

\* one set of cells is the other moved, turned or turned over
Congruent(S, T) ==
    \E k \in 0..5 :
        \/ Anchored(Turned(S, k)) = Anchored(T)
        \/ Anchored(Turned(Mirrored(S), k)) = Anchored(T)

\* every cell of the set is reached from one of them along common edges
EdgeConnected(S) ==
    \E order \in [1..Cardinality(S) -> S] :
        /\ \A c \in S : \E i \in DOMAIN order : order[i] = c
        /\ \A i \in 2..Cardinality(S) : \E j \in 1..(i - 1) : EdgeAdjacent(order[i], order[j])

\* The connected polyhexes of 1 to 4 cells, each position once: the sets whose
\* first cell, by q and then r, is 0,0.  Such a set lies in 0..3 x -3..3.
Polyhexes ==
    LET origin == [q |-> 0, r |-> 0]
        Region == {c \in [q : 0..3, r : -3..3] : c.q > 0 \/ c.r >= 0}
    IN  {S \in {{origin, a, b, c} : a \in Region, b \in Region, c \in Region} :
            EdgeConnected(S)}

CatalogOfPolyhexes(shapes) ==
    LET CellsOf(i) == Range(shapes[i].cells)
        OfSize(n) == Cardinality({i \in 1..Len(shapes) : shapes[i].size = n})
    IN  /\ Len(shapes) = 12
        /\ OfSize(1) = 1 /\ OfSize(2) = 1 /\ OfSize(3) = 3 /\ OfSize(4) = 7
        /\ \A i \in 1..Len(shapes) :
              /\ shapes[i].size = Len(shapes[i].cells)
              /\ Cardinality(CellsOf(i)) = Len(shapes[i].cells)
              /\ EdgeConnected(CellsOf(i))
        /\ \A i \in 1..Len(shapes), j \in 1..Len(shapes) :
              /\ i < j => shapes[i].size <= shapes[j].size
              /\ i # j => ~Congruent(CellsOf(i), CellsOf(j))
              /\ i # j => canonicalKey(shapes[i].cells) # canonicalKey(shapes[j].cells)
        /\ \A S \in Polyhexes :
              Cardinality({i \in 1..Len(shapes) : Congruent(CellsOf(i), S)}) = 1

\* C25: ALL_PIECE_SHAPES holds every connected polyhex of 1 to 4 cells, up to
\* rotation and reflection, exactly once: 12 shapes (1, 1, 3 and 7 of the sizes
\* 1 to 4), no two with the same canonical key, each edge-connected with
\* distinct cells and its size equal to its cell count, in ascending size.
C25_CatalogOfPolyhexes == Loaded => CatalogOfPolyhexes(probe.shapes)

\* The catalog is loaded and holds a shape that differs from its mirror image
\* by more than a move.
C25_Witness ==
    /\ Loaded
    /\ \E i \in 1..Len(probe.shapes) :
          \A k \in 0..5 :
              Anchored(Turned(Mirrored(Range(probe.shapes[i].cells)), k))
                  # Anchored(Range(probe.shapes[i].cells))

\* the fields of the mode a game is not in are at rest
ModeSeparate(g) ==
    /\ g.mode \in {"endless", "daily"}
    /\ g.mode = "daily" => g.goldenCellId = NULL
    /\ g.mode = "endless" =>
          /\ DOMAIN g.dailyHits = {}
          /\ g.dailyTotalHits = 0
          /\ g.dailyRemainingHits = 0
          /\ g.dailyCompleted = FALSE

\* a step of a game in play: a placement request
PlacementStep == game # NONE /\ game' # NONE /\ last' = "placePieceAtCell"

\* C26: in every state of a game, in daily mode goldenCellId is null, and in
\* endless mode dailyHits is empty, dailyTotalHits and dailyRemainingHits are 0
\* and dailyCompleted is false; a placement never changes the mode.
C26_ModeSeparation ==
    /\ [](game # NONE => ModeSeparate(game))
    /\ [][PlacementStep => game'.mode = game.mode]_vars

\* A daily game after a placement that hit a numbered cell, and so wrote the
\* daily fields.
C26_Witness ==
    /\ game # NONE /\ game.mode = "daily"
    /\ Succeeded(call)
    /\ call.current.dailyRemainingHits > game.dailyRemainingHits

\* the state k steps after the state h, on the 16-bit halves
RECURSIVE LcgIterate(_, _)
LcgIterate(h, k) ==
    IF k <= 0 \/ h.lo \notin 0..65535 THEN h
    ELSE IF k = 1 THEN LcgStep(h)
    ELSE LcgIterate(LcgIterate(h, k \div 2), k - (k \div 2))

\* the seeded generator whose state has the given halves
SeededAt(h) ==
    [ kind |-> "seeded",
      state |-> << h.lo % 16384, (h.lo \div 16384) + (h.hi % 4096) * 4, h.hi \div 4096 >>,
      values |-> <<>>, at |-> 0 ]

InDailyHand == probe # NONE /\ probe.fn = "dealDailyHand"

\* C27: dealDailyHand(board, seed, n) discards exactly 1000 x n outputs of the
\* generator seeded with seed and then deals with dealPlayableHand(board, 30,
\* that generator); two calls with the same board, seed and n return hands with
\* the same shapes and rotations in the same order.
C27_DailyHandAfterDiscards ==
    InDailyHand =>
        /\ \A c \in {probe.first, probe.second} :
              /\ c.start = SeededAt(LcgIterate(HalvesOf(probe.dailySeed),
                                               1000 * probe.handDealCount))
              /\ c.call.board = probe.board
              /\ c.call.maxAttempts = 30
              /\ c.call.pc = "returned"
              /\ c.call.out = c.call.dealt[Len(c.call.dealt)]
        /\ probe.first.call.dealt[1] = dealHand(probe.first.start, probe.now).hand
        /\ probe.second.call.dealt[1] = dealHand(probe.second.start, probe.later).hand
        /\ ShapesOf(probe.first.call.out) = ShapesOf(probe.second.call.out)

\* Two calls for a later hand of the day, at different times, that returned a
\* hand dealt after others had no valid move.
C27_Witness ==
    /\ InDailyHand
    /\ probe.handDealCount > 0
    /\ probe.now # probe.later
    /\ Len(probe.first.call.dealt) > 1
    /\ probe.first.call.out # probe.second.call.out

\* the game after a request that called applyPlacement
Requested == game # NONE /\ call # NONE

\* C28: after every successful placement the streak is the previous streak
\* plus 1 if the placement cleared at least one pattern and 0 otherwise; a
\* rejected placement leaves it unchanged; the streak multiplier of a
\* placement is the one of the streak before the placement (a placement
\* without clears scores no points, whatever the streak).
C28_StreakUpdate ==
    Requested =>
        IF Succeeded(call)
        THEN /\ game.streak = IF Len(call.out.result.clearedPatterns) > 0
                              THEN call.current.streak + 1 ELSE 0
             /\ Len(call.out.result.clearedPatterns) > 0 =>
                    call.out.result.streakMultiplier = StreakMultiplier(call.current.streak)
             /\ Len(call.out.result.clearedPatterns) = 0 =>
                    call.out.result.pointsGained = 0
        ELSE game.streak = call.current.streak

\* A clearing placement on a game that came with a streak: the multiplier is
\* the one of the streak before, not of the streak after.
C28_Witness ==
    /\ Requested
    /\ Succeeded(call)
    /\ Len(call.out.result.clearedPatterns) > 0
    /\ call.current.streak > 0
    /\ game.streak = call.current.streak + 1
    /\ call.out.result.streakMultiplier # StreakMultiplier(game.streak)

\* a step from one game to the next: a placement request
PlacementOf(current, next) ==
    current # NONE /\ next # NONE /\ last' = "placePieceAtCell"

\* C29: in endless mode every successful placement increases the score by
\* pointsGained plus one point per cell of the placed piece, so the score
\* strictly increases with every move; in daily mode the score never changes.
C29_ScoreUpdate ==
    /\ [](Requested /\ Succeeded(call) /\ call.current.mode = "endless" =>
            /\ game.score = call.current.score + call.out.result.pointsGained
                              + Len(call.piece.shape.cells)
            /\ game.score > call.current.score)
    /\ [][PlacementOf(game, game') /\ game.mode = "daily" => game'.score = game.score]_vars

\* An endless placement without clears: the score grows by the cells placed.
C29_Witness ==
    /\ Requested
    /\ Succeeded(call)
    /\ call.current.mode = "endless"
    /\ call.out.result.pointsGained = 0
    /\ Len(call.piece.shape.cells) > 1
    /\ game.score = call.current.score + Len(call.piece.shape.cells)

\* C30: the move counter increases by exactly 1 on every successful placement;
\* a rejected placement, a placement of a piece that is not in the hand, and
\* any placement request made while gameOver is true leave the whole game
\* state unchanged.
C30_MovesAndNoChange ==
    [][PlacementOf(game, game') =>
          /\ game.gameOver => game' = game
          /\ call' = NONE => game' = game
          /\ call' # NONE /\ ~Succeeded(call') => game' = game
          /\ call' # NONE /\ Succeeded(call') /\ ~game.gameOver =>
                (game'.moves = game.moves + 1 /\ call'.current = game)
          /\ \A pieceId \in {UnknownPieceId}, cellId \in CallOrigins,
                shuffled \in Shuffles, dealt \in Deals :
                placePieceAtCell(game, undoStack, pieceId, cellId, shuffled, dealt).game = game
      ]_vars

\* A game that is over after a move, and a request made on it since.
C30_Witness ==
    /\ game # NONE
    /\ game.gameOver
    /\ game.moves > 0
    /\ call = NONE


\* The ids of the pieces of a hand, and the ids its slots show.
HandIds(hand) == {hand[i].id : i \in 1..Len(hand)}

SlotIds(handSlots) == {handSlots[i] : i \in 1..Len(handSlots)} \ {NULL}

\* A step in which placePieceAtCell placed a piece.
Placed == PlacementOf(game, game') /\ Succeeded(call')

\* C31: the hand has 1 to 3 pieces and handSlots 3 entries, whose non-null
\* entries are exactly the ids of the pieces of the hand; a successful placement
\* takes exactly the placed piece out of the hand and nulls its slot, and when
\* the hand was that piece alone a hand of 3 pieces is dealt and fills the slots.
C31_HandCycle ==
    /\ [](game # NONE =>
            /\ Len(game.hand) \in 1..3
            /\ Len(game.handSlots) = 3
            /\ SlotIds(game.handSlots) = HandIds(game.hand)
            /\ Cardinality({i \in 1..3 : game.handSlots[i] # NULL}) = Len(game.hand))
    /\ [][Placed =>
            LET piece == call'.piece
                IsOther(p) == p # piece
            IN  /\ piece \in Range(game.hand)
                /\ IF Len(game.hand) > 1
                   THEN /\ game'.hand = SelectSeq(game.hand, IsOther)
                        /\ Len(game'.hand) = Len(game.hand) - 1
                        /\ \A i \in 1..3 :
                              game'.handSlots[i] = IF game.handSlots[i] = piece.id THEN NULL
                                                   ELSE game.handSlots[i]
                   ELSE /\ game'.hand \in Deals
                        /\ Len(game'.hand) = 3
                        /\ game'.handSlots = [i \in 1..3 |-> game'.hand[i].id]]_vars

\* The third of three placements from a fresh game brought a new hand.
C31_Witness ==
    /\ game # NONE /\ Succeeded(call) /\ last = "placePieceAtCell" /\ budget = 0
    /\ Len(call.current.hand) = 1
    /\ Len(game.hand) = 3
    /\ game.moves = 3
    /\ undoStack = <<>>

\* Some piece of the hand fits somewhere on the board: all the cells it would
\* cover from some origin are cells of the board and empty.
SomePieceFits(board, hand) ==
    \E i \in 1..Len(hand), origin \in cellSet :
        \A k \in 1..Len(hand[i].shape.cells) :
            LET target == axialToId(addAxial(CoordOf(origin), hand[i].shape.cells[k]))
            IN  target \in cellSet /\ board[target] = EMPTY

\* C32: after a successful placement gameOver is true exactly when no piece of
\* the resulting hand fits on the resulting board (endless mode), or when the
\* puzzle is completed or no piece fits (daily mode).
C32_GameOverIffStuck ==
    game # NONE /\ Succeeded(call) /\ last = "placePieceAtCell" =>
        /\ game.board = call.out.result.board
        /\ IF game.mode = "endless"
           THEN game.gameOver <=> ~SomePieceFits(game.board, game.hand)
           ELSE game.gameOver <=> (game.dailyCompleted \/ ~SomePieceFits(game.board, game.hand))

\* An endless game ended by a placement that left a piece in hand and no room
\* for it.
C32_Witness ==
    /\ game # NONE /\ Succeeded(call) /\ last = "placePieceAtCell"
    /\ game.mode = "endless"
    /\ game.gameOver
    /\ Len(game.hand) = 1
    /\ ~SomePieceFits(game.board, game.hand)

\* C33: a placement in daily mode increases no entry of dailyHits, keeps its
\* keys and dailyTotalHits, does not increase dailyRemainingHits, and keeps
\* dailyCompleted once it is true.
C33_DailyProgressMonotone ==
    [][PlacementOf(game, game') /\ game.mode = "daily" =>
            /\ DOMAIN game'.dailyHits = DOMAIN game.dailyHits
            /\ \A id \in DOMAIN game.dailyHits : game'.dailyHits[id] <= game.dailyHits[id]
            /\ game'.dailyTotalHits = game.dailyTotalHits
            /\ game'.dailyRemainingHits <= game.dailyRemainingHits
            /\ (game.dailyCompleted => game'.dailyCompleted)]_vars

\* A daily placement took hits off a numbered cell and left others as they were.
C33_Witness ==
    /\ game # NONE /\ Succeeded(call) /\ last = "placePieceAtCell"
    /\ game.mode = "daily"
    /\ game.dailyRemainingHits < call.current.dailyRemainingHits
    /\ \E id \in DOMAIN game.dailyHits : game.dailyHits[id] < call.current.dailyHits[id]
    /\ \E id \in DOMAIN game.dailyHits :
          game.dailyHits[id] = call.current.dailyHits[id] /\ game.dailyHits[id] > 0

\* C34: an endless game has a golden cell and that cell is filled; no piece of
\* the hand can be placed so as to cover it, a placement that applied did not
\* cover it, and a placement that cleared it brought another golden cell.
C34_GoldenCellFilled ==
    /\ [](game # NONE /\ game.mode = "endless" =>
            /\ game.goldenCellId \in cellSet
            /\ game.board[game.goldenCellId] = FILLED
            /\ \A i \in 1..Len(game.hand), origin \in cellSet :
                  LET placement == canPlacePiece(game.board, game.hand[i].shape, origin)
                  IN  placement # NONE =>
                         ~Includes(placement.targetCellIds, game.goldenCellId))
    /\ [][Placed /\ game.mode = "endless" =>
            /\ ~Includes(call'.out.result.placedCellIds, game.goldenCellId)
            /\ call'.out.result.goldenCleared =>
                  /\ call'.out.result.goldenCellId \in cellSet \ {game.goldenCellId}
                  /\ game'.goldenCellId = call'.out.result.goldenCellId]_vars

\* The golden cell was cleared and the new one is a cell that was empty after
\* the clears.
C34_Witness ==
    /\ game # NONE /\ Succeeded(call) /\ last = "placePieceAtCell"
    /\ game.mode = "endless"
    /\ call.out.result.goldenCleared
    /\ game.goldenCellId # call.current.goldenCellId
    /\ call.out.locals.boardAfterClears[game.goldenCellId] = EMPTY
    /\ game.board[game.goldenCellId] = FILLED

\* C35: on the board a clearing placement returns, a cell of clearedCellIds is
\* empty unless it is a numbered cell with hits left or the golden cell just
\* spawned; a placed cell outside the cleared patterns is filled; every other
\* cell, the golden cell just spawned excepted, is as on the input board.
C35_BoardAfterClearingPlacement ==
    Succeeded(call) /\ Len(call.out.result.clearedPatterns) > 0 =>
        LET result == call.out.result
            before == call.current.board
            cleared == Range(result.clearedCellIds)
            placed == Range(result.placedCellIds)
            inPatterns == UNION {Range(result.clearedPatterns[i].cellIds) :
                                    i \in 1..Len(result.clearedPatterns)}
            numbered == {id \in DOMAIN result.dailyHits :
                            call.current.mode = "daily" /\ result.dailyHits[id] > 0}
            spawned == IF result.goldenCleared THEN {result.goldenCellId} ELSE {}
        IN  /\ DOMAIN result.board = cellSet
            /\ \A id \in cleared \ (numbered \cup spawned) : result.board[id] = EMPTY
            /\ \A id \in placed \ inPatterns : result.board[id] = FILLED
            /\ \A id \in cellSet \ (placed \cup cleared \cup spawned) :
                  result.board[id] = before[id]

\* A clearing placement of a piece with a cell outside the cleared pattern,
\* on a board with filled cells that it leaves alone.
C35_Witness ==
    /\ Succeeded(call) /\ Len(call.out.result.clearedPatterns) > 0
    /\ \E id \in Range(call.out.result.placedCellIds) :
          /\ id \notin Range(call.out.result.clearedCellIds)
          /\ call.out.result.board[id] = FILLED
    /\ \E id \in cellSet \ (Range(call.out.result.placedCellIds)
                              \cup Range(call.out.result.clearedCellIds)) :
          call.out.result.board[id] = FILLED /\ call.current.board[id] = FILLED

\* The calls of random one call of dealHand made: one per shape drawn, the one
\* that made it throw, and two (rotation, id) per piece of the hand.
DrawsOfHand(dealt) ==
    SumSeq([slot \in 1..Len(dealt.drawn) |-> Len(dealt.drawn[slot])])
        + 2 * Len(dealt.hand) + (IF dealt.thrown THEN 1 ELSE 0)

\* The calls of random a call of dealPlayableHand made, in the hands it dealt.
DrawsOfDeal(p) == SumSeq([i \in 1..Len(p.dealt) |-> DrawsOfHand(p.hands[i])])

\* The stream n calls after `random`.
StreamAfter(random, n) ==
    IF random.kind = "seeded" THEN SeededAt(LcgIterate(HalvesOf(random.state), n))
    ELSE [random EXCEPT !.at = ((random.at - 1 + n) % Len(random.values)) + 1]

\* A call of dealPlayableHand that is over made fewer draws than
\* dealDailyHand skips per hand, and left the stream that many calls on.
FewerDrawsThanSkipped(p, before) ==
    /\ p.pc \in {"returned", "thrown"}
    /\ Len(p.dealt) <= 31
    /\ \A i \in 1..Len(p.dealt) : DrawsOfHand(p.hands[i]) <= 29
    /\ before + DrawsOfDeal(p) < estimatedRandomCallsPerHand
    /\ p.random = StreamAfter(p.start, DrawsOfDeal(p))

\* C36: a call of dealPlayableHand with 30 attempts makes fewer than 1000 calls
\* of random; so does createDailyGameState, whose hand deal follows 12 calls
\* for the layout; and so does the hand deal of dealDailyHand, which skips 1000
\* calls per earlier hand.
C36_DealWithinSkippedBlock ==
    /\ (InDealPlayable /\ probe.maxAttempts = DefaultAttempts /\ probe.pc # "loop") =>
          FewerDrawsThanSkipped(probe, 0)
    /\ \A c \in DailyCalls :
          /\ c.deal.maxAttempts = DefaultAttempts
          /\ c.deal.start = StreamAfter(makeSeededRandom(getTodaySeed(probe.today)), 12)
          /\ FewerDrawsThanSkipped(c.deal, 12)
    /\ InDailyHand =>
          \A c \in {probe.first, probe.second} : FewerDrawsThanSkipped(c.call, 0)

\* A call that dealt 31 hands of 29 draws each: three shapes of 4 cells, the
\* third after 20 more draws, on a board where none of them fits.
C36_Witness ==
    /\ InDealPlayable /\ probe.maxAttempts = DefaultAttempts /\ probe.pc = "returned"
    /\ Len(probe.dealt) = 31
    /\ DrawsOfDeal(probe) = 31 * 29

\* A snapshot is an earlier state of the current hand of the current game: it
\* has the mode of the game and holds the pieces of the game's hand and more.
EarlierOfThisHand(snapshot, current) ==
    /\ snapshot.mode = current.mode
    /\ HandIds(current.hand) \subseteq HandIds(snapshot.hand)
    /\ Len(snapshot.hand) > Len(current.hand)

\* the history never holds more than 2 snapshots
HistoryBounded == Len(undoStack) <= 2

\* a placement of a piece that is not the last of its hand pushes the state
\* before the move, the oldest of two snapshots being dropped; the last piece
\* of a hand and a restart empty the history
HistoryWritten ==
    /\ Placed =>
          undoStack' = IF Len(game.hand) = 1 THEN <<>>
                       ELSE Append(IF Len(undoStack) >= 2 THEN Tail(undoStack) ELSE undoStack,
                                   game)
    /\ last' = "resetGame" => undoStack' = <<>>

\* undo with an empty history changes nothing
EmptyUndoIdle ==
    (last' = "handleUndo" /\ undoStack = <<>>) => (game' = game /\ undoStack' = <<>>)

\* C37: the history holds at most 2 snapshots, is pushed and emptied as
\* described, an undo on the empty history changes nothing, and every snapshot
\* an undo can bring back is an earlier state of the current hand.
C37_UndoWithinCurrentHand ==
    /\ [](HistoryBounded)
    /\ [][HistoryWritten /\ EmptyUndoIdle]_vars
    /\ [](game # NONE =>
            \A i \in 1..Len(undoStack) : EarlierOfThisHand(undoStack[i], game))

\* C38: an undo gives a state of the mode the game had.
C38_UndoKeepsMode ==
    [][(last' = "handleUndo" /\ game # NONE /\ game' # NONE) => game'.mode = game.mode]_vars

\* The catalog shapes turned by 0 to 5 sixth-turns about the origin, as dealHand
\* turns them.
TurnedShapes(shapes) ==
    {[shapes[i] EXCEPT !.cells = [k \in 1..Len(shapes[i].cells) |->
                                     IF turns = 0 THEN shapes[i].cells[k]
                                     ELSE rotateAxial(shapes[i].cells[k], turns)]] :
        i \in 1..Len(shapes), turns \in 0..5}

\* the cells a shape covers from an origin: origin + offset, as coordinates
CoveredFrom(shape, origin) ==
    {addAxial(CoordOf(origin), shape.cells[k]) : k \in 1..Len(shape.cells)}

\* C39: every catalog shape has the offset (0,0) as its first cell, turned or
\* not; so canPlacePiece, when it succeeds, has the origin cell among its
\* targets (the first of them) and the origin cell is empty, and it fails
\* whenever the origin cell is filled.
C39_OriginIsATarget ==
    /\ Loaded =>
          /\ \A i \in 1..Len(probe.shapes) : probe.shapes[i].cells[1] = Ax(0, 0)
          /\ \A shape \in TurnedShapes(probe.shapes) :
                /\ shape.cells[1] = Ax(0, 0)
                /\ \A board \in CallBoards, origin \in cellSet :
                      LET placement == canPlacePiece(board, shape, origin)
                      IN  /\ placement # NONE =>
                                /\ placement.targetCellIds[1] = origin
                                /\ board[origin] = EMPTY
                          /\ board[origin] # EMPTY => placement = NONE
    /\ (probe # NONE /\ probe.fn = "dealHand") =>
          \A i \in 1..Len(probe.out.hand) : probe.out.hand[i].shape.cells[1] = Ax(0, 0)

\* A turned shape of 4 cells that fits at one origin, and is rejected at an
\* origin that is filled though the other cells it would cover are free.
C39_Witness ==
    /\ Loaded
    /\ \E shape \in TurnedShapes(probe.shapes), board \in CallBoards, origin \in cellSet :
          /\ Len(shape.cells) = 4
          /\ shape \notin Range(probe.shapes)
          /\ canPlacePiece(board, shape, origin) # NONE
    /\ \E shape \in TurnedShapes(probe.shapes), board \in CallBoards, origin \in cellSet :
          /\ Len(shape.cells) > 1
          /\ board[origin] = FILLED
          /\ \A c \in CoveredFrom(shape, origin) \ {CoordOf(origin)} :
                axialToId(c) \in cellSet /\ board[axialToId(c)] = EMPTY
          /\ canPlacePiece(board, shape, origin) = NONE
====
